---- MODULE Spec2Model ----
(***************************************************************************)
(* A model of better-icons: the managed icons file (parseExistingIcons,    *)
(* addIconToFile and the code generators) and the preferences store        *)
(* (loadPreferences, savePreferences, trackUsage, clearPreferences).       *)
(*                                                                         *)
(* Text is modelled structurally.  A string that the code inspects         *)
(* character by character (an icon identifier, a component name) is a      *)
(* sequence of one-character strings.  The managed file is a sequence of   *)
(* lines, each terminated by a newline; a line is a record                 *)
(*    [k |-> kind, t |-> fixed text tag, s |-> characters, m |-> markup]   *)
(* with k one of "comment" (a line starting with //), "blank", "import",   *)
(* "export" (a line starting with "export const <s> = ") and "code".       *)
(***************************************************************************)
EXTENDS Integers, Sequences, FiniteSets, TLC

VARIABLES
  framework,   \* the flavour the caller passes to addIconToFile for this file
  mdir,        \* whether dirname(filePath) exists
  mfile,       \* the managed file: Absent, or its lines
  prevFile,    \* the managed file as it was before the last addIconToFile call
  lastAdd,     \* the last addIconToFile call: its iconId and what it returned
  firstName,   \* iconId -> component name returned by the call that added it
  adders,      \* per caller: where it is in addIconToFile, and its locals
  overlapped,  \* whether two addIconToFile calls have run at the same time
  calc         \* the running (or last) call of a function of icon-utils

fileVars == <<framework, mdir, mfile, prevFile, lastAdd, firstName, adders, overlapped,
              calc>>

VARIABLES
  pdir,        \* whether ~/.better-icons exists
  pfile,       \* ~/.better-icons/preferences.json
  temp,        \* per process: preferences.json.<pid>.tmp
  DEFAULT_PREFERENCES,  \* per process: the module-level default object
  pc,          \* per process: where it is in trackUsage / clearPreferences
  call,        \* per process: the running (or last) call and its arguments
  prefs,       \* per process: the prefs object being saved
  attempt,     \* per process: the loop counter of trackUsage
  fbh,         \* per process: the file handle of the fallback overwrite
  logged,      \* per process: console.error lines of the running call
  now,         \* the wall clock
  faultsLeft,  \* I/O failures that may still happen
  ev           \* what the last step showed to a caller or a reader

prefVars == <<pdir, pfile, temp, DEFAULT_PREFERENCES, pc, call, prefs, attempt,
              fbh, logged, now, faultsLeft, ev>>

vars == <<fileVars, prefVars>>

-----------------------------------------------------------------------------
(* Bounds of the managed-file model *)

\* addIconToFile is not called on a file that already holds this many blocks
MaxBlocks == 2

\* the value of a file variable when the file does not exist: told apart
\* from every file content, which has no line of this kind
Absent == << [k |-> "absent", t |-> "", s |-> << >>, m |-> ""] >>

Frameworks == {"react", "vue", "svelte", "solid", "svg"}

\* characters matched by the regular-expression class \w
LowerChars == {"a", "b", "c", "f", "g", "h", "i", "l", "m", "n", "o", "r", "s", "t", "w", "x"}
UpperChars == {"A", "B", "C", "F", "I", "L", "M", "R", "W", "X"}
WordChars == LowerChars \cup UpperChars \cup {"0", "1", "_"}

\* The icon identifiers the callers pass: two icons of the same name in
\* different collections, a name with a dot, and a collection prefix with
\* a dot.
IconIds == { <<"l", ":", "a">>, <<"m", ":", "a">>,
             <<"l", ":", "a", ".", "b">>, <<"l", ".", "x", ":", "a">> }

\* customName: not given (the empty string is falsy as well), or a name
NoCustom == << >>
CustomNames == { NoCustom, <<"F">> }

\* The markup handed in: plain markup preceded by an XML declaration, or
\* markup that carries the HTML comment <!-- l:a -->
NoteId == <<"l", ":", "a">>
Markups == {"xml+plain", "noted"}

-----------------------------------------------------------------------------
(* Strings *)

\* the letters that have both cases in the alphabet, as <<lower, upper>>
CasePairs == { <<"a", "A">>, <<"b", "B">>, <<"c", "C">>, <<"f", "F">>, <<"i", "I">>,
               <<"l", "L">>, <<"m", "M">>, <<"r", "R">>, <<"w", "W">>, <<"x", "X">> }

ToUpper(c) ==
  IF \E p \in CasePairs : p[1] = c THEN (CHOOSE p \in CasePairs : p[1] = c)[2] ELSE c

ToLower(c) ==
  IF \E p \in CasePairs : p[2] = c THEN (CHOOSE p \in CasePairs : p[2] = c)[1] ELSE c

RECURSIVE Flatten(_)
Flatten(ss) == IF ss = << >> THEN << >> ELSE Head(ss) \o Flatten(Tail(ss))

\* s.split(sep) for a set of one-character separators: always at least one part
RECURSIVE SplitOn(_, _)
SplitOn(s, seps) ==
  IF \A i \in 1..Len(s) : s[i] \notin seps THEN <<s>>
  ELSE LET i == CHOOSE k \in 1..Len(s) :
                  s[k] \in seps /\ \A j \in 1..(k-1) : s[j] \notin seps
       IN <<SubSeq(s, 1, i-1)>> \o SplitOn(SubSeq(s, i+1, Len(s)), seps)

\* the longest prefix of s made of \w characters: what (\w+) captures at s
RECURSIVE WordPrefix(_)
WordPrefix(s) ==
  IF s = << >> \/ Head(s) \notin WordChars THEN << >>
  ELSE <<Head(s)>> \o WordPrefix(Tail(s))

-----------------------------------------------------------------------------
(* ComponentCodeGenerator *)

IconSuffix == <<"I", "c", "o", "n">>
WithClassSuffix == <<"W", "i", "t", "h", "C", "l", "a", "s", "s">>

\* a faulty variant: the rest of the part keeps its case
Capitalize_KeepsRest(part) ==
  IF part = << >> THEN << >>
  ELSE <<ToUpper(Head(part))>> \o Tail(part)

\* part.charAt(0).toUpperCase() + part.slice(1).toLowerCase()
Capitalize(part) ==
  IF part = << >> THEN << >>
  ELSE <<ToUpper(Head(part))>> \o [i \in 1..(Len(part) - 1) |-> ToLower(part[i + 1])]

iconIdToComponentName(iconId) ==
  LET parts == SplitOn(iconId, {":"})
      name  == IF Len(parts) >= 2 THEN parts[2] ELSE << >>
  IN IF name = << >> THEN IconSuffix
     ELSE LET segs == SplitOn(name, {"-", "_"})
          IN Flatten([i \in 1..Len(segs) |-> Capitalize(segs[i])]) \o IconSuffix

Line(k, t, s, m) == [k |-> k, t |-> t, s |-> s, m |-> m]
Blank == Line("blank", "", << >>, "")

\* svg.replace(/<\?xml[^>]*\?>/g, "").trim()
CleanSvg(svg) == IF svg = "xml+plain" THEN "plain" ELSE svg

generateIconComponent(componentName, svg, iconId, fw) ==
  LET clean == CleanSvg(svg)
      idLine == Line("comment", "id", iconId, "")
  IN CASE fw \in {"react", "solid"} ->
            << idLine,
               Line("export", fw, componentName, ""),
               Line("code", "svg-spread-props", << >>, clean),
               Line("code", ");", << >>, "") >>
       [] fw = "vue" ->
            << idLine,
               Line("export", "vue", componentName, ""),
               Line("code", "name:", componentName, ""),
               Line("code", "inheritAttrs: false,", << >>, ""),
               Line("code", "template:", << >>, clean),
               Line("code", "};", << >>, "") >>
       [] fw = "svelte" ->
            << idLine,
               Line("comment", "Use with:", componentName, ""),
               Line("export", "svelte", componentName, clean),
               Line("export", "svelte-class", componentName \o WithClassSuffix, clean) >>
       [] OTHER ->
            << idLine,
               Line("export", "svg", componentName, clean) >>

getFileHeader(fw) ==
  LET banner == << Line("comment", "Auto-generated icons file", << >>, ""),
                   Line("comment", "Do not edit manually", << >>, "") >>
  IN CASE fw = "react"  -> banner \o <<Blank, Line("import", "react", << >>, ""), Blank>>
       [] fw = "solid"  -> banner \o <<Blank, Line("import", "solid-js", << >>, ""), Blank>>
       [] fw = "svelte" -> banner \o <<Line("comment", "Usage:", << >>, ""), Blank>>
       [] OTHER         -> banner \o <<Blank>>

-----------------------------------------------------------------------------
(* ManagedFileStore *)

EmptyMap == [x \in {} |-> << >>]
MapSet(f, key, v) == [x \in (DOMAIN f) \cup {key} |-> IF x = key THEN v ELSE f[x]]

\* The comment line is "//" followed by text that ([\w-]+:[\w\d.-]+)\s*\n
\* matches as a whole: a prefix of \w and "-", a colon, a name of \w, "." and "-"
MatchesIconIdPattern(s) ==
  \E i \in 2..(Len(s) - 1) :
     /\ s[i] = ":"
     /\ \A j \in 1..(i - 1) : s[j] \in WordChars \cup {"-"}
     /\ \A j \in (i + 1)..Len(s) : s[j] \in WordChars \cup {".", "-"}

IsIdComment(ln) == ln.k = "comment" /\ ln.t = "id" /\ MatchesIconIdPattern(ln.s)

\* \s*(?:\/\/[^\n]*\n\s*)* : the index of the first line at or after i that is
\* neither blank nor a comment line
RECURSIVE SkipCommentsAndBlanks(_, _)
SkipCommentsAndBlanks(content, i) ==
  IF i <= Len(content) /\ content[i].k \in {"blank", "comment"}
  THEN SkipCommentsAndBlanks(content, i + 1)
  ELSE i

\* export\s+(?:const|function)\s+(\w+) matches at the start of line ln
IsExport(ln) == ln.k = "export" /\ WordPrefix(ln.s) # << >>

\* while ((match = iconPattern.exec(content)) !== null): leftmost matches, the
\* search resuming after the end of each match
RECURSIVE IconPatternScan(_, _, _)
IconPatternScan(content, i, icons) ==
  IF i > Len(content) THEN icons
  ELSE IF IsIdComment(content[i])
       THEN LET j == SkipCommentsAndBlanks(content, i + 1)
            IN IF j <= Len(content) /\ IsExport(content[j])
               THEN IconPatternScan(content, j + 1,
                                    MapSet(icons, content[i].s, WordPrefix(content[j].s)))
               ELSE IconPatternScan(content, i + 1, icons)
       ELSE IconPatternScan(content, i + 1, icons)

\* the line holds <!-- id --> with id matching the identifier pattern
HasVueComment(ln) == ln.m = "noted"

\* content.slice(match.index).match(/export\s+(?:const|function)\s+(\w+)/): the
\* first export after the comment; the comment follows the export of its own line
FirstExportAfter(content, i) ==
  LET js == {j \in (i + 1)..Len(content) : IsExport(content[j])}
  IN IF js = {} THEN 0 ELSE CHOOSE j \in js : \A k \in js : j <= k

RECURSIVE VuePatternScan(_, _, _)
VuePatternScan(content, i, icons) ==
  IF i > Len(content) THEN icons
  ELSE IF HasVueComment(content[i]) /\ FirstExportAfter(content, i) # 0
       THEN VuePatternScan(content, i + 1,
               MapSet(icons, NoteId, WordPrefix(content[FirstExportAfter(content, i)].s)))
       ELSE VuePatternScan(content, i + 1, icons)

parseExistingIcons(file) ==
  IF file = Absent THEN EmptyMap
  ELSE VuePatternScan(file, 1, IconPatternScan(file, 1, EmptyMap))

\* content.trimEnd(): the trailing blank lines and the last newline go
RECURSIVE TrimEnd(_)
TrimEnd(content) ==
  IF content # << >> /\ content[Len(content)].k = "blank"
  THEN TrimEnd(SubSeq(content, 1, Len(content) - 1))
  ELSE content

\* a faulty variant: the new block is put before the content read
AppendBlock_Prepends(content, componentCode) ==
  componentCode \o <<Blank>> \o TrimEnd(content)

\* a faulty variant: two blank lines before the new block
AppendBlock_TwoBlank(content, componentCode) ==
  TrimEnd(content) \o <<Blank, Blank>> \o componentCode

\* content.trimEnd() + "\n\n" + componentCode + "\n"
AppendBlock(content, componentCode) ==
  IF TrimEnd(content) = << >>
  THEN <<Blank, Blank>> \o componentCode
  ELSE TrimEnd(content) \o <<Blank>> \o componentCode

\* The entry blocks physically in the file: one per identifier comment
\* "// <iconId>", with the name its export line declares
RECURSIVE EntriesFrom(_, _)
EntriesFrom(content, i) ==
  IF i > Len(content) THEN << >>
  ELSE IF content[i].k = "comment" /\ content[i].t = "id"
       THEN LET j == SkipCommentsAndBlanks(content, i + 1)
                end == IF \E e \in i..Len(content) : content[e].k = "blank"
                       THEN (CHOOSE e \in i..Len(content) :
                               content[e].k = "blank" /\
                               \A d \in i..(e - 1) : content[d].k # "blank") - 1
                       ELSE Len(content)
            IN <<[iconId |-> content[i].s,
                  componentName |-> IF j <= Len(content) /\ content[j].k = "export"
                                    THEN content[j].s ELSE << >>,
                  lines |-> SubSeq(content, i, end)]>>
               \o EntriesFrom(content, i + 1)
       ELSE EntriesFrom(content, i + 1)

Entries(file) == IF file = Absent THEN << >> ELSE EntriesFrom(file, 1)

\* the processes that call addIconToFile on the path
Callers == {"a1", "a2"}

IdleAdder == [pc |-> "idle", iconId |-> << >>, svg |-> "", customName |-> << >>,
              content |-> << >>]

NoCalc == [fn |-> "none", pc |-> "none"]

NoAdd == [iconId |-> << >>, componentName |-> << >>, alreadyExists |-> FALSE, called |-> FALSE]

addIconToFile(iconId, svg, customName) ==
  LET existingIcons == parseExistingIcons(mfile)
  IN IF iconId \in DOMAIN existingIcons
     THEN /\ lastAdd' = [iconId |-> iconId, componentName |-> existingIcons[iconId],
                         alreadyExists |-> TRUE, called |-> TRUE]
          /\ prevFile' = mfile
          /\ UNCHANGED <<framework, mdir, mfile, firstName, adders, overlapped, calc, prefVars>>
     ELSE LET componentName == IF customName # << >> THEN customName
                               ELSE iconIdToComponentName(iconId)
              componentCode == generateIconComponent(componentName, svg, iconId, framework)
              content == IF mfile # Absent THEN mfile ELSE getFileHeader(framework)
          IN /\ Len(Entries(mfile)) < MaxBlocks
             /\ mdir' = TRUE
             /\ mfile' = AppendBlock(content, componentCode)
             /\ prevFile' = mfile
             /\ lastAdd' = [iconId |-> iconId, componentName |-> componentName,
                            alreadyExists |-> FALSE, called |-> TRUE]
             /\ firstName' = IF iconId \in DOMAIN firstName THEN firstName
                             ELSE MapSet(firstName, iconId, componentName)
             /\ UNCHANGED <<framework, adders, overlapped, calc, prefVars>>

InitFile ==
  /\ framework \in Frameworks
  /\ mdir = FALSE
  /\ mfile = Absent
  /\ prevFile = Absent
  /\ lastAdd = NoAdd
  /\ firstName = EmptyMap
  /\ adders = [a \in Callers |-> IdleAdder]
  /\ overlapped = FALSE
  /\ calc = NoCalc

AddIcon ==
  \E iconId \in IconIds, svg \in Markups, customName \in CustomNames :
     addIconToFile(iconId, svg, customName)

-----------------------------------------------------------------------------
(* addIconToFile step by step: several callers on one path, I/O failures *)

\* a caller does not start to add to a file that holds this many blocks
ConcBlocks == 3
\* I/O failures of addIconToFile in one behaviour
AddFaults == 1

\* the identifiers the concurrent callers pass
StepIconIds == { <<"l", ":", "a">>, <<"m", ":", "a">>, <<"l", ".", "x", ":", "a">> }

prefVarsButFaults == <<pdir, pfile, temp, DEFAULT_PREFERENCES, pc, call, prefs, attempt,
                       fbh, logged, now, ev>>

\* parseExistingIcons(filePath) and the test existingIcons.has(iconId)
AddParse(a, iconId, svg, customName) ==
  /\ adders[a].pc \in {"idle", "raised"}
  /\ overlapped' = (overlapped \/ \E b \in Callers \ {a} : adders[b].pc \in {"read", "write"})
  /\ LET existingIcons == parseExistingIcons(mfile)
     IN IF iconId \in DOMAIN existingIcons
        THEN /\ adders' = [adders EXCEPT ![a] = IdleAdder]
             /\ lastAdd' = [iconId |-> iconId, componentName |-> existingIcons[iconId],
                            alreadyExists |-> TRUE, called |-> TRUE]
             /\ prevFile' = mfile
        ELSE /\ Len(Entries(mfile)) < ConcBlocks
             /\ adders' = [adders EXCEPT ![a] =
                              [pc |-> "read", iconId |-> iconId, svg |-> svg,
                               customName |-> customName, content |-> << >>]]
             /\ UNCHANGED <<lastAdd, prevFile>>
  /\ UNCHANGED <<framework, mdir, mfile, firstName, calc, prefVars>>

\* mkdirSync(dir, { recursive: true }) throws: the error reaches the caller
AddMkdirFails(a) ==
  /\ adders[a].pc = "read"
  /\ ~mdir
  /\ faultsLeft > 0
  /\ faultsLeft' = faultsLeft - 1
  /\ adders' = [adders EXCEPT ![a].pc = "raised"]
  /\ prevFile' = mfile
  /\ UNCHANGED <<framework, mdir, mfile, lastAdd, firstName, overlapped, calc,
                 prefVarsButFaults>>

\* the directory is there or is made; the content is read, or is the header
AddRead(a) ==
  /\ adders[a].pc = "read"
  /\ mdir' = TRUE
  /\ adders' = [adders EXCEPT ![a].pc = "write",
                              ![a].content = IF mfile # Absent THEN mfile
                                             ELSE getFileHeader(framework)]
  /\ UNCHANGED <<framework, mfile, prevFile, lastAdd, firstName, overlapped, calc,
                 prefVars>>

\* writeFileSync(filePath, content) and the return
AddWrite(a) ==
  /\ adders[a].pc = "write"
  /\ LET componentName == IF adders[a].customName # << >> THEN adders[a].customName
                          ELSE iconIdToComponentName(adders[a].iconId)
         componentCode == generateIconComponent(componentName, adders[a].svg,
                                                adders[a].iconId, framework)
     IN /\ mfile' = AppendBlock(adders[a].content, componentCode)
        /\ lastAdd' = [iconId |-> adders[a].iconId, componentName |-> componentName,
                       alreadyExists |-> FALSE, called |-> TRUE]
        /\ firstName' = IF adders[a].iconId \in DOMAIN firstName THEN firstName
                        ELSE MapSet(firstName, adders[a].iconId, componentName)
  /\ prevFile' = mfile
  /\ adders' = [adders EXCEPT ![a] = IdleAdder]
  /\ UNCHANGED <<framework, mdir, overlapped, calc, prefVars>>

\* writeFileSync throws: the file could not be opened and is as it was, or
\* it was opened, which truncates it, and the write failed; the error reaches
\* the caller
AddWriteFails(a) ==
  /\ adders[a].pc = "write"
  /\ faultsLeft > 0
  /\ faultsLeft' = faultsLeft - 1
  /\ \E f \in {mfile, << >>} : mfile' = f
  /\ prevFile' = mfile
  /\ adders' = [adders EXCEPT ![a].pc = "raised"]
  /\ UNCHANGED <<framework, mdir, lastAdd, firstName, overlapped, calc, prefVarsButFaults>>

-----------------------------------------------------------------------------
(* Claims about the managed file, stated for SpecFile *)

HasEntry(file, iconId) ==
  \E i \in DOMAIN Entries(file) : Entries(file)[i].iconId = iconId

\* C1: once a call has added iconId X, every later addIconToFile call for X
\* returns alreadyExists = true with the component name the adding call
\* returned, and leaves the file as it was.
C1_IdempotentPerIconId ==
  (lastAdd.called /\ HasEntry(prevFile, lastAdd.iconId))
    => /\ lastAdd.alreadyExists
       /\ lastAdd.componentName = firstName[lastAdd.iconId]
       /\ mfile = prevFile

\* C2: every iconId has at most one entry block in the managed file.
C2_IconIdUnique ==
  \A i, j \in DOMAIN Entries(mfile) :
     Entries(mfile)[i].iconId = Entries(mfile)[j].iconId => i = j

\* C3: no two entry blocks of the managed file declare the same componentName.
C3_ComponentNameUnique ==
  \A i, j \in DOMAIN Entries(mfile) :
     Entries(mfile)[i].componentName = Entries(mfile)[j].componentName => i = j

\* C4: when addIconToFile returns with alreadyExists = false, parseExistingIcons
\* on the same path maps the new iconId to exactly the returned componentName.
C4_ParseAfterAdd ==
  (lastAdd.called /\ ~lastAdd.alreadyExists)
    => /\ lastAdd.iconId \in DOMAIN parseExistingIcons(mfile)
       /\ parseExistingIcons(mfile)[lastAdd.iconId] = lastAdd.componentName

\* C5: the managed file is append-only: after every addIconToFile call the
\* entry blocks that existed before the call are all still there, unchanged and
\* in the same order, and a newly added block is the last one.
C5_AppendOnly ==
  lastAdd.called =>
    LET before == Entries(prevFile)
        after  == Entries(mfile)
    IN /\ Len(before) <= Len(after)
       /\ SubSeq(after, 1, Len(before)) = before
       /\ lastAdd.alreadyExists => after = before
       /\ ~lastAdd.alreadyExists =>
            /\ Len(after) = Len(before) + 1
            /\ after[Len(after)].iconId = lastAdd.iconId
            /\ after[Len(after)].componentName = lastAdd.componentName

\* a second block was appended after an existing one
C5_Witness ==
  /\ lastAdd.called /\ ~lastAdd.alreadyExists
  /\ Len(Entries(prevFile)) >= 1
  /\ Len(Entries(mfile)) = Len(Entries(prevFile)) + 1

-----------------------------------------------------------------------------
(* PreferenceStore *)

MAX_HISTORY_SIZE == 50
maxRetries == 3

\* Bounds of the preferences model
MaxClock == 1      \* the clock stops advancing here
MaxFaults == 3     \* I/O failures in one behaviour of a single process
ConcFaults == 2    \* I/O failures in one behaviour of two processes
MaxCount == 2      \* trackUsage is not started for a prefix counted this often
NumIcons == 51     \* distinct icons tracked when the history is filled

Procs == {"p1", "p2"}
NoIcon == 0

DefaultDoc == [collections |-> EmptyMap, history |-> << >>]
NoFile == [st |-> "absent", doc |-> DefaultDoc]
\* a file that was truncated or written in part: JSON.parse throws on it
TornFile == [st |-> "torn", doc |-> DefaultDoc]

\* a faulty variant: the document is cut short
Serialize_Truncated(pr) ==
  [st |-> "torn", doc |-> [collections |-> EmptyMap, history |-> << >>]]

\* writeFileSync(..., JSON.stringify(prefs, null, 2)) carried out in full
Serialize(pr) ==
  [st |-> "complete", doc |-> [collections |-> pr.collections, history |-> pr.history]]

\* shared: the collections object returned is DEFAULT_PREFERENCES.collections
\* itself (the spread copies the reference, not the object)
loadPreferences(p) ==
  IF pfile.st = "absent"
  THEN [collections |-> DEFAULT_PREFERENCES[p].collections,
        history |-> DEFAULT_PREFERENCES[p].history, shared |-> TRUE]
  ELSE IF pfile.st = "complete"
       THEN [collections |-> pfile.doc.collections,
             history |-> pfile.doc.history, shared |-> FALSE]
       ELSE [collections |-> DEFAULT_PREFERENCES[p].collections,
             history |-> << >>, shared |-> TRUE]

CountOf(collections, prefix) ==
  IF prefix \in DOMAIN collections THEN collections[prefix].count ELSE 0

LastUsedOf(collections, prefix) ==
  IF prefix \in DOMAIN collections THEN collections[prefix].lastUsed ELSE 0

\* what a parse of the file as it stands gives for the prefix
PersistedCollections == IF pfile.st = "complete" THEN pfile.doc.collections ELSE EmptyMap
PersistedHistory == IF pfile.st = "complete" THEN pfile.doc.history ELSE << >>

\* a faulty variant: the entry of iconId already in the history is not removed
UpdateHistory_NoFilter(history, iconId, t) ==
  LET all == <<[iconId |-> iconId, timestamp |-> t]>> \o history
  IN SubSeq(all, 1, IF Len(all) < MAX_HISTORY_SIZE THEN Len(all) ELSE MAX_HISTORY_SIZE)

\* a faulty variant: push instead of unshift
UpdateHistory_Appends(history, iconId, t) ==
  LET kept == SelectSeq(history, LAMBDA h : h.iconId # iconId)
      all  == kept \o <<[iconId |-> iconId, timestamp |-> t]>>
  IN SubSeq(all, 1, IF Len(all) < MAX_HISTORY_SIZE THEN Len(all) ELSE MAX_HISTORY_SIZE)

\* filter, unshift, slice(0, MAX_HISTORY_SIZE)
UpdateHistory(history, iconId, t) ==
  LET kept == SelectSeq(history, LAMBDA h : h.iconId # iconId)
      all  == <<[iconId |-> iconId, timestamp |-> t]>> \o kept
  IN SubSeq(all, 1, IF Len(all) < MAX_HISTORY_SIZE THEN Len(all) ELSE MAX_HISTORY_SIZE)

NoEv == [kind |-> "none", p |-> "", st |-> "", empty |-> FALSE]
Ev(kind, p) == [kind |-> kind, p |-> p, st |-> "", empty |-> FALSE]

NoCall == [op |-> "none", prefix |-> "", iconId |-> NoIcon, count0 |-> 0, last0 |-> 0]

\* One pass of the loop body of trackUsage up to the call of savePreferences
LoadModify(p, prefix, iconId) ==
  LET loaded == loadPreferences(p)
      colls  == MapSet(loaded.collections, prefix,
                       [count |-> CountOf(loaded.collections, prefix) + 1,
                        lastUsed |-> now])
      hist   == IF iconId # NoIcon THEN UpdateHistory(loaded.history, iconId, now)
                ELSE loaded.history
  IN /\ prefs' = [prefs EXCEPT ![p] = [collections |-> colls, history |-> hist]]
     /\ DEFAULT_PREFERENCES' =
           IF loaded.shared
           THEN [DEFAULT_PREFERENCES EXCEPT ![p].collections = colls]
           ELSE DEFAULT_PREFERENCES
     /\ pc' = [pc EXCEPT ![p] = "save"]

\* savePreferences returned: trackUsage returns, clearPreferences returns
Returned(p) ==
  /\ pc' = [pc EXCEPT ![p] = "idle"]
  /\ ev' = Ev(IF call[p].op = "track" THEN "trackReturned" ELSE "clearReturned", p)
  /\ UNCHANGED <<attempt, logged>>

\* a faulty variant: the catch of trackUsage rethrows after the last attempt
Thrown_Rethrows(p) ==
  IF call[p].op = "track" /\ attempt[p] + 1 < maxRetries
  THEN /\ attempt' = [attempt EXCEPT ![p] = @ + 1]
       /\ pc' = [pc EXCEPT ![p] = "attempt"]
       /\ ev' = NoEv
       /\ UNCHANGED logged
  ELSE /\ pc' = [pc EXCEPT ![p] = "idle"]
       /\ attempt' = [attempt EXCEPT ![p] = IF call[p].op = "track" THEN @ + 1 ELSE @]
       /\ ev' = Ev(IF call[p].op = "track" THEN "trackRaised" ELSE "clearRaised", p)
       /\ UNCHANGED logged

\* a faulty variant: the catch of trackUsage logs after every failed attempt
Thrown_LogsEach(p) ==
  IF call[p].op = "track"
  THEN /\ logged' = [logged EXCEPT ![p] = @ + 1]
       /\ attempt' = [attempt EXCEPT ![p] = @ + 1]
       /\ pc' = [pc EXCEPT ![p] = IF attempt[p] + 1 < maxRetries THEN "attempt" ELSE "idle"]
       /\ ev' = IF attempt[p] + 1 < maxRetries THEN NoEv ELSE Ev("trackGaveUp", p)
  ELSE /\ pc' = [pc EXCEPT ![p] = "idle"]
       /\ ev' = Ev("clearRaised", p)
       /\ UNCHANGED <<attempt, logged>>

\* savePreferences threw: the catch of trackUsage, or the caller of clearPreferences
Thrown(p) ==
  IF call[p].op = "track"
  THEN /\ logged' = [logged EXCEPT ![p] =
                        IF attempt[p] = maxRetries - 1 THEN @ + 1 ELSE @]
       /\ attempt' = [attempt EXCEPT ![p] = @ + 1]
       /\ pc' = [pc EXCEPT ![p] = IF attempt[p] + 1 < maxRetries THEN "attempt" ELSE "idle"]
       /\ ev' = IF attempt[p] + 1 < maxRetries THEN NoEv ELSE Ev("trackGaveUp", p)
  ELSE /\ pc' = [pc EXCEPT ![p] = "idle"]
       /\ ev' = Ev("clearRaised", p)
       /\ UNCHANGED <<attempt, logged>>

TrackUsage(p, prefix, iconId, cap) ==
  /\ pc[p] = "idle"
  /\ CountOf(PersistedCollections, prefix) < cap
  /\ CountOf(DEFAULT_PREFERENCES[p].collections, prefix) < cap
  /\ call' = [call EXCEPT ![p] =
                 [op |-> "track", prefix |-> prefix, iconId |-> iconId,
                  count0 |-> CountOf(PersistedCollections, prefix),
                  last0 |-> LastUsedOf(PersistedCollections, prefix)]]
  /\ attempt' = [attempt EXCEPT ![p] = 0]
  /\ logged' = [logged EXCEPT ![p] = 0]
  /\ LoadModify(p, prefix, iconId)
  /\ ev' = NoEv
  /\ UNCHANGED <<pdir, pfile, temp, fbh, now, faultsLeft, fileVars>>

TrackRetry(p) ==
  /\ pc[p] = "attempt"
  /\ attempt[p] < maxRetries
  /\ LoadModify(p, call[p].prefix, call[p].iconId)
  /\ ev' = NoEv
  /\ UNCHANGED <<pdir, pfile, temp, call, attempt, fbh, logged, now, faultsLeft, fileVars>>

ClearPreferences(p) ==
  /\ pc[p] = "idle"
  /\ call' = [call EXCEPT ![p] = [NoCall EXCEPT !.op = "clear"]]
  /\ prefs' = [prefs EXCEPT ![p] =
                  [collections |-> DEFAULT_PREFERENCES[p].collections, history |-> << >>]]
  /\ pc' = [pc EXCEPT ![p] = "save"]
  /\ ev' = NoEv
  /\ UNCHANGED <<pdir, pfile, temp, DEFAULT_PREFERENCES, attempt, fbh, logged, now,
                 faultsLeft, fileVars>>

\* a call of loadPreferences by itself
LoadPreferences(p) ==
  /\ pc[p] = "idle"
  /\ ev' = [kind |-> "load", p |-> p, st |-> pfile.st,
            empty |-> /\ loadPreferences(p).collections = EmptyMap
                      /\ loadPreferences(p).history = << >>]
  /\ UNCHANGED <<pdir, pfile, temp, DEFAULT_PREFERENCES, pc, call, prefs, attempt,
                 fbh, logged, now, faultsLeft, fileVars>>

\* savePreferences: mkdirSync throws, before the try
MkdirFails(p) ==
  /\ pc[p] = "save"
  /\ ~pdir
  /\ faultsLeft > 0
  /\ faultsLeft' = faultsLeft - 1
  /\ Thrown(p)
  /\ UNCHANGED <<pdir, pfile, temp, DEFAULT_PREFERENCES, call, prefs, fbh, now, fileVars>>

\* savePreferences: writeFileSync(tempPath, ...)
WriteTemp(p) ==
  /\ pc[p] = "save"
  /\ pdir' = TRUE
  /\ temp' = [temp EXCEPT ![p] = Serialize(prefs[p])]
  /\ pc' = [pc EXCEPT ![p] = "rename"]
  /\ ev' = NoEv
  /\ UNCHANGED <<pfile, DEFAULT_PREFERENCES, call, prefs, attempt, fbh, logged, now,
                 faultsLeft, fileVars>>

\* writeFileSync(tempPath, ...) throws: the temp file is as it was (it could
\* not be opened) or is left written in part; existsSync(tempPath) decides
\* whether the fallback runs
WriteTempFails(p) ==
  /\ pc[p] = "save"
  /\ faultsLeft > 0
  /\ faultsLeft' = faultsLeft - 1
  /\ pdir' = TRUE
  /\ \E t \in {temp[p], TornFile} :
        /\ temp' = [temp EXCEPT ![p] = t]
        /\ IF t.st # "absent"
           THEN /\ pc' = [pc EXCEPT ![p] = "fbopen"]
                /\ ev' = NoEv
                /\ UNCHANGED <<attempt, logged>>
           ELSE Thrown(p)
  /\ UNCHANGED <<pfile, DEFAULT_PREFERENCES, call, prefs, fbh, now, fileVars>>

\* renameSync(tempPath, path): the target is replaced in one step; a handle
\* that another process holds on the old target now refers to an unlinked file
Rename(p) ==
  /\ pc[p] = "rename"
  /\ pfile' = temp[p]
  /\ temp' = [temp EXCEPT ![p] = NoFile]
  /\ fbh' = [q \in Procs |-> IF fbh[q] = "none" THEN "none" ELSE "replaced"]
  /\ Returned(p)
  /\ UNCHANGED <<pdir, DEFAULT_PREFERENCES, call, prefs, now, faultsLeft, fileVars>>

RenameFails(p) ==
  /\ pc[p] = "rename"
  /\ faultsLeft > 0
  /\ faultsLeft' = faultsLeft - 1
  /\ pc' = [pc EXCEPT ![p] = "fbopen"]
  /\ ev' = NoEv
  /\ UNCHANGED <<pdir, pfile, temp, DEFAULT_PREFERENCES, call, prefs, attempt, fbh,
                 logged, now, fileVars>>

\* the fallback writeFileSync(path, ...) opens the target, which truncates it
FallbackOpen(p) ==
  /\ pc[p] = "fbopen"
  /\ pfile' = TornFile
  /\ fbh' = [fbh EXCEPT ![p] = "open"]
  /\ pc' = [pc EXCEPT ![p] = "fbwrite"]
  /\ ev' = NoEv
  /\ UNCHANGED <<pdir, temp, DEFAULT_PREFERENCES, call, prefs, attempt, logged, now,
                 faultsLeft, fileVars>>

\* the fallback cannot open the target: ignored, the first error is thrown
FallbackOpenFails(p) ==
  /\ pc[p] = "fbopen"
  /\ faultsLeft > 0
  /\ faultsLeft' = faultsLeft - 1
  /\ Thrown(p)
  /\ UNCHANGED <<pdir, pfile, temp, DEFAULT_PREFERENCES, call, prefs, fbh, now, fileVars>>

\* a faulty variant: after a fallback write the call returns
FallbackWrite_Returns(p) ==
  /\ pc[p] = "fbwrite"
  /\ pfile' = (IF fbh[p] = "replaced" THEN pfile ELSE Serialize(prefs[p]))
  /\ fbh' = [fbh EXCEPT ![p] = "none"]
  /\ Returned(p)
  /\ UNCHANGED <<pdir, temp, DEFAULT_PREFERENCES, call, prefs, now, faultsLeft, fileVars>>

\* the fallback writes the document through its handle, then the first error
\* is thrown.  A write through a handle on an unlinked file does not show; a
\* write over what another fallback wrote since the open may leave a mix.
FallbackWrite(p) ==
  /\ pc[p] = "fbwrite"
  /\ \E f \in (IF fbh[p] = "replaced" THEN {pfile}
               ELSE IF fbh[p] = "raced" THEN {Serialize(prefs[p]), TornFile}
               ELSE {Serialize(prefs[p])}) : pfile' = f
  /\ fbh' = [q \in Procs |->
               IF q = p THEN "none"
               ELSE IF fbh[p] # "replaced" /\ fbh[q] \in {"open", "raced"} THEN "raced"
               ELSE fbh[q]]
  /\ Thrown(p)
  /\ UNCHANGED <<pdir, temp, DEFAULT_PREFERENCES, call, prefs, now, faultsLeft, fileVars>>

\* the fallback write fails part way: ignored, the first error is thrown
FallbackWriteFails(p) ==
  /\ pc[p] = "fbwrite"
  /\ faultsLeft > 0
  /\ faultsLeft' = faultsLeft - 1
  /\ pfile' = IF fbh[p] = "replaced" THEN pfile ELSE TornFile
  /\ fbh' = [fbh EXCEPT ![p] = "none"]
  /\ Thrown(p)
  /\ UNCHANGED <<pdir, temp, DEFAULT_PREFERENCES, call, prefs, now, fileVars>>

\* another program reads preferences.json
ReadFile ==
  /\ ev' = [kind |-> "read", p |-> "", st |-> pfile.st, empty |-> FALSE]
  /\ ev' # ev
  /\ UNCHANGED <<pdir, pfile, temp, DEFAULT_PREFERENCES, pc, call, prefs, attempt,
                 fbh, logged, now, faultsLeft, fileVars>>

Tick ==
  /\ now < MaxClock
  /\ now' = now + 1
  /\ ev' = NoEv
  /\ UNCHANGED <<pdir, pfile, temp, DEFAULT_PREFERENCES, pc, call, prefs, attempt,
                 fbh, logged, faultsLeft, fileVars>>

InitPrefs ==
  /\ pdir = FALSE
  /\ pfile = NoFile
  /\ temp = [p \in Procs |-> NoFile]
  /\ DEFAULT_PREFERENCES = [p \in Procs |-> DefaultDoc]
  /\ pc = [p \in Procs |-> "idle"]
  /\ call = [p \in Procs |-> NoCall]
  /\ prefs = [p \in Procs |-> DefaultDoc]
  /\ attempt = [p \in Procs |-> 0]
  /\ fbh = [p \in Procs |-> "none"]
  /\ logged = [p \in Procs |-> 0]
  /\ now = 0
  /\ ev = NoEv

SaveSteps(p) ==
  \/ MkdirFails(p)
  \/ WriteTemp(p)
  \/ WriteTempFails(p)
  \/ Rename(p)
  \/ RenameFails(p)
  \/ FallbackOpen(p)
  \/ FallbackOpenFails(p)
  \/ FallbackWrite(p)
  \/ FallbackWriteFails(p)

-----------------------------------------------------------------------------
(* Specifications *)

\* the managed file, written by sequential addIconToFile calls
InitManaged == InitFile /\ InitPrefs /\ faultsLeft = 0

SpecFile == InitManaged /\ [][AddIcon]_vars

Init == InitPrefs /\ InitFile /\ framework = "react" /\ faultsLeft = ConcFaults

InitSolo == InitPrefs /\ InitFile /\ framework = "react" /\ faultsLeft = MaxFaults

\* two processes track usage of one collection, a third program reads the file
Next ==
  \/ \E p \in Procs : TrackUsage(p, "lucide", NoIcon, MaxCount)
  \/ \E p \in Procs : TrackRetry(p)
  \/ \E p \in Procs : ClearPreferences(p)
  \/ \E p \in Procs : SaveSteps(p)
  \/ ReadFile

Spec == Init /\ [][Next]_vars

\* one process, no other writer
NextSolo ==
  \/ \E prefix \in {"lucide", "mdi"}, iconId \in {NoIcon, 1, 2} :
        TrackUsage("p1", prefix, iconId, MaxCount)
  \/ TrackRetry("p1")
  \/ ClearPreferences("p1")
  \/ LoadPreferences("p1")
  \/ SaveSteps("p1")
  \/ Tick

SpecSolo == InitSolo /\ [][NextSolo]_vars

\* one process, one collection, a constant clock: the retries of trackUsage
\* under I/O failures
NextRetry ==
  \/ \E iconId \in {NoIcon, 1} : TrackUsage("p1", "lucide", iconId, MaxCount)
  \/ TrackRetry("p1")
  \/ ClearPreferences("p1")
  \/ SaveSteps("p1")

SpecRetry == InitSolo /\ [][NextRetry]_vars

\* two callers of addIconToFile on one path, step by step
InitSteps == InitFile /\ framework = "react" /\ InitPrefs /\ faultsLeft = AddFaults

NextSteps ==
  \/ \E a \in Callers, iconId \in StepIconIds : AddParse(a, iconId, "xml+plain", NoCustom)
  \/ \E a \in Callers : AddMkdirFails(a)
  \/ \E a \in Callers : AddRead(a)
  \/ \E a \in Callers : AddWrite(a)
  \/ \E a \in Callers : AddWriteFails(a)

SpecSteps == InitSteps /\ [][NextSteps]_vars

\* One process fills the history.  Icons that were never tracked are
\* interchangeable, so the next call tracks the lowest-numbered icon not
\* tracked so far, the icon tracked last, icon 1, or no icon.
MaxTracked ==
  IF PersistedHistory = << >> THEN 0
  ELSE LET ids == {PersistedHistory[i].iconId : i \in DOMAIN PersistedHistory}
       IN CHOOSE m \in ids : \A n \in ids : n <= m

HistoryChoices ==
  {NoIcon, 1} \cup {i \in {MaxTracked + 1} : i <= NumIcons}
      \cup {PersistedHistory[i].iconId : i \in {j \in DOMAIN PersistedHistory : j = 1}}

InitHistory == InitPrefs /\ InitFile /\ framework = "react" /\ faultsLeft = 0

NextHistory ==
  \/ \E iconId \in HistoryChoices : TrackUsage("p1", "lucide", iconId, NumIcons + 1)
  \/ ClearPreferences("p1")
  \/ WriteTemp("p1")
  \/ Rename("p1")

SpecHistory == InitHistory /\ [][NextHistory]_vars

-----------------------------------------------------------------------------
(* Claims about the preferences store *)

\* C6: under any interleaving of savePreferences calls of distinct processes
\* with a concurrent reader, a read of preferences.json never yields a
\* truncated or partly written document.  (Stated for Spec.)
C6_ReadNeverTorn == ev.kind = "read" => ev.st # "torn"

\* C7: after clearPreferences returns, the persisted preferences have no
\* collections and an empty history.  (Stated for SpecSolo.)
C7_ClearLeavesDefault ==
  ev.kind = "clearReturned" => (pfile.st = "complete" /\ pfile.doc = DefaultDoc)

\* C8: whenever preferences.json is absent or cannot be parsed, loadPreferences
\* returns a structure with no collections and an empty history.  (Stated
\* for SpecSolo.)
C8_LoadGivesDefault ==
  (ev.kind = "load" /\ ev.st \in {"absent", "torn"}) => ev.empty

\* C9: with no other writer, a trackUsage(prefix) call whose save succeeds
\* leaves the persisted count of the prefix exactly 1 above what it was when
\* the call began, and lastUsed not below what it was.  (Stated for SpecSolo.)
C9_CountGrowsByOne ==
  ev.kind = "trackReturned" =>
    /\ CountOf(PersistedCollections, call[ev.p].prefix) = call[ev.p].count0 + 1
    /\ LastUsedOf(PersistedCollections, call[ev.p].prefix) >= call[ev.p].last0

\* C10: the persisted history has at most 50 entries and no iconId appears in
\* it more than once.  (Stated for SpecHistory.)
C10_HistoryBoundedUnique ==
  /\ Len(pfile.doc.history) <= 50
  /\ Cardinality({pfile.doc.history[i].iconId : i \in DOMAIN pfile.doc.history})
        = Len(pfile.doc.history)

\* the history is full, the oldest icon has been dropped from it, and the
\* icon at its head has just been tracked again
C10_Witness ==
  /\ Len(pfile.doc.history) = 50
  /\ pfile.doc.history[1].iconId = NumIcons
  /\ \A i \in DOMAIN pfile.doc.history : pfile.doc.history[i].iconId # 1
  /\ ev.kind = "trackReturned"
  /\ call["p1"].iconId = NumIcons
  /\ call["p1"].count0 >= NumIcons

-----------------------------------------------------------------------------
(* Further claims about trackUsage *)

\* C11: a trackUsage(prefix, iconId) call whose save succeeds leaves iconId at
\* index 0 of the persisted history, followed by the other entries in their
\* previous relative order, cut to the 50 most recent; a call without iconId
\* leaves the history as it was.  (Stated for SpecHistory: the step is the
\* rename that completes the call.)
C11_MoveToFront ==
  [][ (pc["p1"] = "rename" /\ pc'["p1"] = "idle" /\ call["p1"].op = "track") =>
        LET old  == PersistedHistory
            new  == pfile'.doc.history
            id   == call["p1"].iconId
            kept == SelectSeq(old, LAMBDA h : h.iconId # id)
        IN IF id = NoIcon THEN new = old
           ELSE /\ new # << >>
                /\ new[1].iconId = id
                /\ Len(new) = (IF Len(kept) < 49 THEN Len(kept) + 1 ELSE 50)
                /\ \A i \in 2..Len(new) : new[i] = kept[i - 1] ]_vars

\* icon 1, the oldest entry of a full history, has been moved to the front
C11_Witness ==
  /\ ev.kind = "trackReturned"
  /\ call["p1"].iconId = 1
  /\ Len(pfile.doc.history) = 50
  /\ pfile.doc.history[1].iconId = 1
  /\ pfile.doc.history[2].iconId = 50
  /\ pfile.doc.history[50].iconId = 2

\* C12: trackUsage never raises to its caller: whatever load or save failures
\* occur, all attempts failing included, the step that ends a trackUsage call
\* is a normal return, after a successful save or after the failure was
\* logged.  (Stated for SpecRetry.)
C12_TrackNeverRaises ==
  [][ \A p \in Procs :
        (call[p].op = "track" /\ pc[p] # "idle" /\ pc'[p] = "idle")
          => (ev'.p = p /\ ev'.kind \in {"trackReturned", "trackGaveUp"}) ]_vars

\* every attempt of a call failed, each after its fallback had written the file
C12_Witness ==
  /\ ev.kind = "trackGaveUp"
  /\ pc["p1"] = "idle"
  /\ faultsLeft = 0
  /\ pfile.st = "complete"

\* C13: trackUsage makes at most 3 load-modify-save attempts: none after the
\* attempt whose save succeeds, exactly 3 when every attempt fails, and the
\* failure is logged once only, after the third failed attempt.  (Stated for
\* SpecRetry; attempt and logged count the failed attempts and the log lines
\* of the last trackUsage call.)
C13_BoundedAttempts ==
  \A p \in Procs :
     /\ attempt[p] <= 3
     /\ logged[p] = (IF attempt[p] = 3 THEN 1 ELSE 0)
     /\ pc[p] = "attempt" => attempt[p] \in {1, 2}
     /\ (call[p].op = "track" /\ pc[p] \in {"save", "rename", "fbopen", "fbwrite"})
           => attempt[p] \in {0, 1, 2}
     /\ (ev.kind = "trackReturned" /\ ev.p = p) => (pc[p] = "idle" /\ attempt[p] <= 2)
     /\ (ev.kind = "trackGaveUp" /\ ev.p = p) => (pc[p] = "idle" /\ attempt[p] = 3)

\* three attempts failed at three different steps of savePreferences
C13_Witness ==
  /\ ev.kind = "trackGaveUp"
  /\ attempt["p1"] = 3
  /\ logged["p1"] = 1
  /\ pdir /\ pfile.st = "absent"

-----------------------------------------------------------------------------
(* Claims about addIconToFile step by step, stated for SpecSteps *)

\* C15: two addIconToFile calls on one path that run at the same time can
\* leave the entry one of them wrote missing from the file, and can leave two
\* copies of one iconId; calls that never run at the same time (and meet no
\* I/O failure) reach neither state: every iconId a call added has an entry,
\* and no iconId has two.
C15_SerializedNeitherLostNorDouble ==
  (~overlapped /\ faultsLeft = AddFaults) =>
     /\ \A id \in DOMAIN firstName : HasEntry(mfile, id)
     /\ \A i, j \in DOMAIN Entries(mfile) :
           Entries(mfile)[i].iconId = Entries(mfile)[j].iconId => i = j

\* after overlapping calls and no I/O failure: the file holds two copies of
\* l:a, and m:a, which a call added and returned, has no entry
C15_Witness ==
  /\ overlapped /\ faultsLeft = AddFaults
  /\ \A a \in Callers : adders[a].pc = "idle"
  /\ Len(Entries(mfile)) = 3
  /\ Entries(mfile)[1].iconId = <<"l", ":", "a">>
  /\ Entries(mfile)[2].iconId = <<"l", ":", "a">>
  /\ <<"m", ":", "a">> \in DOMAIN firstName
  /\ ~HasEntry(mfile, <<"m", ":", "a">>)

\* what a read of the file gives; a file that does not exist has no content
FileContent(file) == IF file = Absent THEN << >> ELSE file

\* C16: addIconToFile never silently drops a requested icon: the step by which
\* it returns alreadyExists = false leaves the new entry in the file; a call
\* whose mkdir or write fails raises to its caller at once, is not tried
\* again, and leaves the file content as it was.
C16_AddErrorsSurface ==
  [][ \A a \in Callers :
        /\ (adders[a].pc = "write" /\ adders'[a].pc = "idle")
             => /\ HasEntry(mfile', adders[a].iconId)
                /\ lastAdd'.iconId = adders[a].iconId /\ ~lastAdd'.alreadyExists
        /\ (adders[a].pc \in {"read", "write"} /\ adders'[a].pc = "raised")
             => FileContent(mfile') = FileContent(mfile)
        /\ (adders[a].pc = "write" /\ adders'[a].pc # "write")
             => adders'[a].pc \in {"idle", "raised"} ]_vars

-----------------------------------------------------------------------------
(* Claims about the persisted collections under interleaving, stated for Spec *)

\* C17: a collection entry, once persisted, is never removed and its count
\* never decreases except by clearPreferences, also when trackUsage calls of
\* several processes interleave.  Stated for the steps of behaviours in which
\* no I/O call fails: a step that is not a step of a clearPreferences call
\* keeps the entry of "lucide" and does not lower its count.
C17_CountNeverDecreases ==
  [][ ( /\ faultsLeft = ConcFaults
        /\ "lucide" \in DOMAIN PersistedCollections
        /\ \A p \in Procs : pc'[p] # pc[p] => call[p].op # "clear" )
      => /\ "lucide" \in DOMAIN PersistedCollections'
         /\ CountOf(PersistedCollections', "lucide")
              >= CountOf(PersistedCollections, "lucide") ]_vars

-----------------------------------------------------------------------------
(* icon-utils: resolveIconAlias *)

\* maxDepth = 10 when the caller gives none
DefaultMaxDepth == 10
\* the other values of maxDepth the callers pass are 0..MaxDepthArg
MaxDepthArg == 2

IconNames == {"a", "b", "c"}
\* an alias entry whose parent is undefined or null
NoParent == "undefined"

\* iconSet.aliases: none (undefined) is the empty mapping
AliasMaps ==
  UNION { [D -> [parent : IconNames \cup {NoParent}]] : D \in SUBSET IconNames }

MaxDepths == (0..MaxDepthArg) \cup {DefaultMaxDepth}

\* iconSet.aliases[current]?.parent ?? current
ParentOrSelf(aliases, current) ==
  IF current \in DOMAIN aliases /\ aliases[current].parent # NoParent
  THEN aliases[current].parent
  ELSE current

\* a faulty variant: depth <= maxDepth
AliasLoopCond_OneMore(c) == c.current \in DOMAIN c.aliases /\ c.depth <= c.maxDepth

\* while (iconSet.aliases?.[current] && depth < maxDepth)
AliasLoopCond(c) == c.current \in DOMAIN c.aliases /\ c.depth < c.maxDepth

\* let current = name; let depth = 0
resolveIconAlias(aliases, name, maxDepth) ==
  /\ calc.pc = "none"
  /\ calc' = [fn |-> "resolveIconAlias", pc |-> "loop", aliases |-> aliases,
              name |-> name, maxDepth |-> maxDepth, current |-> name, depth |-> 0]
  /\ UNCHANGED <<framework, mdir, mfile, prevFile, lastAdd, firstName, adders,
                 overlapped, prefVars>>

\* a faulty variant: depth is not counted
AliasHop_NoCount ==
  /\ calc.fn = "resolveIconAlias" /\ calc.pc = "loop"
  /\ AliasLoopCond(calc)
  /\ calc' = [calc EXCEPT !.current = ParentOrSelf(calc.aliases, calc.current)]
  /\ UNCHANGED <<framework, mdir, mfile, prevFile, lastAdd, firstName, adders,
                 overlapped, prefVars>>

\* one pass of the loop body
AliasHop ==
  /\ calc.fn = "resolveIconAlias" /\ calc.pc = "loop"
  /\ AliasLoopCond(calc)
  /\ calc' = [calc EXCEPT !.current = ParentOrSelf(calc.aliases, calc.current),
                          !.depth = calc.depth + 1]
  /\ UNCHANGED <<framework, mdir, mfile, prevFile, lastAdd, firstName, adders,
                 overlapped, prefVars>>

\* the loop condition is false: return current
AliasReturn ==
  /\ calc.fn = "resolveIconAlias" /\ calc.pc = "loop"
  /\ ~AliasLoopCond(calc)
  /\ calc' = [calc EXCEPT !.pc = "done"]
  /\ UNCHANGED <<framework, mdir, mfile, prevFile, lastAdd, firstName, adders,
                 overlapped, prefVars>>

InitAlias == InitFile /\ framework = "react" /\ InitPrefs /\ faultsLeft = 0

NextAlias ==
  \/ \E aliases \in AliasMaps, name \in IconNames, maxDepth \in MaxDepths :
        resolveIconAlias(aliases, name, maxDepth)
  \/ AliasHop
  \/ AliasReturn

\* the loop is synchronous code: a call that has started keeps running
SpecAlias == InitAlias /\ [][NextAlias]_vars /\ WF_vars(AliasHop) /\ WF_vars(AliasReturn)

\* C18: resolveIconAlias terminates for every alias mapping and start name,
\* self-referential and cyclic chains included, after at most maxDepth alias
\* hops: a call never makes more than maxDepth hops, and a call that has
\* started returns.
C18_AliasTerminates ==
  /\ [](calc.fn = "resolveIconAlias" => calc.depth <= calc.maxDepth)
  /\ (calc.pc = "loop") ~> (calc.pc = "done")

\* a cyclic chain a -> b -> a was followed for the 10 hops of the default depth
C18_Witness ==
  /\ calc.fn = "resolveIconAlias" /\ calc.pc = "done"
  /\ calc.aliases = [n \in {"a", "b"} |-> [parent |-> IF n = "a" THEN "b" ELSE "a"]]
  /\ calc.name = "a"
  /\ calc.maxDepth = 10
  /\ calc.depth = 10

\* the name reached from name after h parent hops
RECURSIVE AfterHops(_, _, _)
AfterHops(aliases, name, h) ==
  IF h = 0 THEN name
  ELSE LET prev == AfterHops(aliases, name, h - 1)
       IN IF prev \in DOMAIN aliases /\ aliases[prev].parent # NoParent
          THEN aliases[prev].parent ELSE prev

\* C19: resolveIconAlias returns the name reached after exactly min(k, maxDepth)
\* parent hops, k being the number of hops until a name with no alias entry is
\* reached (k = 0: the input unchanged); for a chain of at most maxDepth hops
\* the result has no alias entry, for a longer or cyclic chain the result is
\* the name at the depth limit.
C19_AliasResult ==
  (calc.fn = "resolveIconAlias" /\ calc.pc = "done") =>
     LET ks == {k \in 0..calc.maxDepth :
                  AfterHops(calc.aliases, calc.name, k) \notin DOMAIN calc.aliases}
         h  == IF ks = {} THEN calc.maxDepth
               ELSE CHOOSE k \in ks : \A j \in ks : k <= j
     IN /\ calc.depth = h
        /\ calc.current = AfterHops(calc.aliases, calc.name, h)
        /\ ks # {} => calc.current \notin DOMAIN calc.aliases
        /\ h = 0 => calc.current = calc.name

\* the chain a -> b -> c was followed to its end
C19_Witness ==
  /\ calc.fn = "resolveIconAlias" /\ calc.pc = "done"
  /\ calc.aliases = [n \in {"a", "b"} |-> [parent |-> IF n = "a" THEN "b" ELSE "c"]]
  /\ calc.name = "a"
  /\ calc.current = "c"
  /\ calc.depth = 2

(***************************************************************************)
(* buildSvg and applyFillToBody (icon-utils.ts).  Markup is a sequence of  *)
(* one-character strings, so that the regular expression of                *)
(* applyFillToBody acts on the text, as it does in the code.               *)
(***************************************************************************)

\* const SVG_SHAPE_ELEMENTS = ["path", "circle", "rect", "polygon", "polyline", "line", "ellipse"]
SVG_SHAPE_ELEMENTS ==
  << <<"p", "a", "t", "h">>, <<"c", "i", "r", "c", "l", "e">>, <<"r", "e", "c", "t">>,
     <<"p", "o", "l", "y", "g", "o", "n">>,
     <<"p", "o", "l", "y", "l", "i", "n", "e">>,
     <<"l", "i", "n", "e">>, <<"e", "l", "l", "i", "p", "s", "e">> >>

\* element names of a body that are not shape elements
OtherElements == { <<"g">>, <<"l", "i", "n", "e", "a", "r", "G", "r", "a", "d", "i", "e", "n", "t">> }

ElementNames == {SVG_SHAPE_ELEMENTS[i] : i \in DOMAIN SVG_SHAPE_ELEMENTS} \cup OtherElements

\* attributes of the tags of a body: name and value
AttrD           == [n |-> <<"d">>, v |-> <<"X">>]
AttrFill        == [n |-> <<"f", "i", "l", "l">>, v |-> <<"n", "o", "n", "e">>]
AttrStroke      == [n |-> <<"s", "t", "r", "o", "k", "e">>, v |-> <<"r", "e", "d">>]
AttrFillRule    == [n |-> <<"f", "i", "l", "l", "-", "r", "u", "l", "e">>, v |-> <<"e", "v", "e", "n", "o", "d", "d">>]
AttrStrokeWidth == [n |-> <<"s", "t", "r", "o", "k", "e", "-", "w", "i", "d", "t", "h">>, v |-> <<"2">>]
AttrDataFill    == [n |-> <<"d", "a", "t", "a", "-", "f", "i", "l", "l">>, v |-> <<"1">>]

AttrLists ==
  { << >>, <<AttrD>>, <<AttrFill, AttrD>>, <<AttrD, AttrStroke>>,
    <<AttrFillRule, AttrD>>, <<AttrStrokeWidth, AttrD>>, <<AttrDataFill, AttrD>> }

\* the opening tags a body is made of
Tags == [name : ElementNames, attrs : AttrLists]

\* the longest body, in tags
MaxTags == 2

Bodies == UNION { [1..n -> Tags] : n \in 0..MaxTags }

\* the text of an attribute:  name="value"  after one blank
AttrText(a) == <<" ">> \o a.n \o <<"=", "\"">> \o a.v \o <<"\"">>

RECURSIVE AttrsText(_)
AttrsText(attrs) ==
  IF attrs = << >> THEN << >> ELSE AttrText(Head(attrs)) \o AttrsText(Tail(attrs))

\* the text of a self-closing opening tag
TagText(t) == <<"<">> \o t.name \o AttrsText(t.attrs) \o <<"/", ">">>

RECURSIVE BodyText(_)
BodyText(tags) ==
  IF tags = << >> THEN << >> ELSE TagText(Head(tags)) \o BodyText(Tail(tags))

\* options.color: not given, the empty string, or a color
ColorOptions ==
  { [given |-> FALSE, v |-> << >>], [given |-> TRUE, v |-> << >>],
    [given |-> TRUE, v |-> <<"r", "e", "d">>] }

currentColor == <<"c", "u", "r", "r", "e", "n", "t", "C", "o", "l", "o", "r">>

\* iconData and defaults sizes and options.size; 0 is undefined
SizeInputs ==
  { [iw |-> 0, ih |-> 0, dw |-> 0, dh |-> 0, left |-> 0, top |-> 0, size |-> 0],
    [iw |-> 16, ih |-> 0, dw |-> 32, dh |-> 32, left |-> 1, top |-> 0, size |-> 48] }

\* a || b || c on numbers
OrElse(a, b, c) == IF a # 0 THEN a ELSE IF b # 0 THEN b ELSE c

\* pat occurs in text at position i
StartsWithAt(text, pat, i) ==
  /\ i + Len(pat) - 1 <= Len(text)
  /\ SubSeq(text, i, i + Len(pat) - 1) = pat

\* the position of the first ">" at or after p, 0 when there is none
FirstGt(text, p) ==
  LET S == {j \in p..Len(text) : text[j] = ">"}
  IN IF S = {} THEN 0 ELSE CHOOSE j \in S : \A k \in S : j <= k

\* [^>]*(?:fill=|stroke=) matches at position p
HasFillOrStroke(text, p) ==
  \E j \in p..Len(text) :
     /\ \A k \in p..(j - 1) : text[k] # ">"
     /\ \/ StartsWithAt(text, <<"f", "i", "l", "l", "=">>, j)
        \/ StartsWithAt(text, <<"s", "t", "r", "o", "k", "e", "=">>, j)

\* <element(?![^>]*(?:fill=|stroke=))([^>]*?)(/?)> matches at position i
TagRegexMatches(text, element, i) ==
  /\ StartsWithAt(text, <<"<">> \o element, i)
  /\ ~HasFillOrStroke(text, i + 1 + Len(element))
  /\ FirstGt(text, i + 1 + Len(element)) # 0

\* the position of the first "<" at or after i, Len(text) + 1 when there is none
NextLt(text, i) ==
  LET S == {j \in i..Len(text) : text[j] = "<"}
  IN IF S = {} THEN Len(text) + 1 ELSE CHOOSE j \in S : \A k \in S : j <= k

\* result.replace(tagRegex, `<${element} fill="${color}"$1$2>`) from position i on:
\* the text before the next "<" stays, a match there runs to the first ">" and
\* the search goes on behind it
RECURSIVE ReplaceTags(_, _, _, _)
ReplaceTags(text, element, color, i) ==
  IF i > Len(text) THEN << >>
  ELSE LET lt == NextLt(text, i)
           p  == lt + 1 + Len(element)
       IN IF lt > Len(text) THEN SubSeq(text, i, Len(text))
          ELSE IF TagRegexMatches(text, element, lt)
          THEN LET e == FirstGt(text, p)
               IN SubSeq(text, i, lt - 1) \o <<"<">> \o element
                    \o <<" ", "f", "i", "l", "l", "=", "\"">> \o color \o <<"\"">>
                    \o SubSeq(text, p, e) \o ReplaceTags(text, element, color, e + 1)
          ELSE SubSeq(text, i, lt) \o ReplaceTags(text, element, color, lt + 1)

\* applyFillToBody from the element at index k on
RECURSIVE FillFrom(_, _, _)
FillFrom(result, color, k) ==
  IF k > Len(SVG_SHAPE_ELEMENTS) THEN result
  ELSE FillFrom(ReplaceTags(result, SVG_SHAPE_ELEMENTS[k], color, 1), color, k + 1)

applyFillToBody(body, color) == FillFrom(body, color, 1)

\* buildSvg up to the call of applyFillToBody
buildSvg(tags, sizes, options) ==
  /\ calc.pc = "none"
  /\ LET width  == OrElse(sizes.iw, sizes.dw, 24)
         height == OrElse(sizes.ih, sizes.dh, 24)
         color  == IF options.given /\ options.v # << >> THEN options.v ELSE currentColor
     IN calc' = [fn |-> "buildSvg", pc |-> "fill", tags |-> tags,
                 body |-> BodyText(tags), options |-> options,
                 viewBox |-> <<sizes.left, sizes.top, width, height>>,
                 svgSize |-> IF sizes.size # 0 THEN [em |-> FALSE, n |-> sizes.size]
                                               ELSE [em |-> TRUE, n |-> 1],
                 color |-> color, result |-> BodyText(tags), element |-> 1]
  /\ UNCHANGED <<framework, mdir, mfile, prevFile, lastAdd, firstName, adders,
                 overlapped, prefVars>>

\* applyFillToBody: one pass of the loop over SVG_SHAPE_ELEMENTS
FillPass ==
  /\ calc.fn = "buildSvg" /\ calc.pc = "fill"
  /\ calc.element <= Len(SVG_SHAPE_ELEMENTS)
  /\ calc' = [calc EXCEPT
                !.result = ReplaceTags(calc.result, SVG_SHAPE_ELEMENTS[calc.element],
                                       calc.color, 1),
                !.element = calc.element + 1]
  /\ UNCHANGED <<framework, mdir, mfile, prevFile, lastAdd, firstName, adders,
                 overlapped, prefVars>>

\* applyFillToBody returns result; buildSvg returns the svg around it
SvgReturn ==
  /\ calc.fn = "buildSvg" /\ calc.pc = "fill"
  /\ calc.element > Len(SVG_SHAPE_ELEMENTS)
  /\ calc' = [calc EXCEPT !.pc = "done"]
  /\ UNCHANGED <<framework, mdir, mfile, prevFile, lastAdd, firstName, adders,
                 overlapped, prefVars>>

InitSvg == InitFile /\ framework = "react" /\ InitPrefs /\ faultsLeft = 0

NextSvg ==
  \/ /\ calc.pc = "none"
     /\ \E tags \in Bodies, sizes \in SizeInputs, options \in ColorOptions :
           buildSvg(tags, sizes, options)
  \/ FillPass
  \/ SvgReturn

SpecSvg == InitSvg /\ [][NextSvg]_vars

\* the tag declares a fill or a stroke attribute
DeclaresFillOrStroke(t) ==
  \E i \in DOMAIN t.attrs : t.attrs[i].n \in {AttrFill.n, AttrStroke.n}

IsShapeElement(name) == \E i \in DOMAIN SVG_SHAPE_ELEMENTS : SVG_SHAPE_ELEMENTS[i] = name

\* attrs with the attribute a as the (k+1)-th
InsertAttr(attrs, k, a) == SubSeq(attrs, 1, k) \o <<a>> \o SubSeq(attrs, k + 1, Len(attrs))

\* the texts the tag may have in the output body: itself when it declares fill
\* or stroke, else itself with one fill="color" among its attributes
FilledTagTexts(t, color) ==
  IF DeclaresFillOrStroke(t) THEN {TagText(t)}
  ELSE { TagText([t EXCEPT !.attrs = InsertAttr(t.attrs, k, [n |-> AttrFill.n, v |-> color])]) :
           k \in 0..Len(t.attrs) }

RECURSIVE FilledBodyTexts(_, _)
FilledBodyTexts(tags, color) ==
  IF tags = << >> THEN { << >> }
  ELSE { h \o r : h \in FilledTagTexts(Head(tags), color),
                  r \in FilledBodyTexts(Tail(tags), color) }

\* C20: when buildSvg has returned for a body of shape elements, every tag
\* that declares neither fill nor stroke has exactly one fill="color"
\* attribute more (color is options.color, or currentColor when that is
\* missing or empty), every tag that declares fill or stroke is as it was,
\* and a second applyFillToBody on the output body changes nothing.
C20_FillInjected ==
  (/\ calc.fn = "buildSvg" /\ calc.pc = "done"
   /\ \A i \in DOMAIN calc.tags : IsShapeElement(calc.tags[i].name)) =>
     /\ calc.result \in
          FilledBodyTexts(calc.tags,
                          IF calc.options.given /\ calc.options.v # << >>
                          THEN calc.options.v ELSE currentColor)
     /\ applyFillToBody(calc.result, calc.color) = calc.result

\* <path d="X"/><circle fill="none" d="X"/> has become
\* <path fill="currentColor" d="X"/><circle fill="none" d="X"/>
C20_Witness ==
  /\ calc.fn = "buildSvg" /\ calc.pc = "done"
  /\ calc.tags = << [name |-> <<"p", "a", "t", "h">>, attrs |-> <<AttrD>>],
                    [name |-> <<"c", "i", "r", "c", "l", "e">>, attrs |-> <<AttrFill, AttrD>>] >>
  /\ ~calc.options.given
  /\ calc.result =
       BodyText(<< [name |-> SVG_SHAPE_ELEMENTS[1],
                    attrs |-> <<[n |-> AttrFill.n, v |-> currentColor], AttrD>>],
                   calc.tags[2] >>)

\* the texts a tag may have after attribute insertion only: a tag of another
\* element is as it was, a tag of a shape element is as it was or has one
\* fill="color" among its attributes, all of them kept in their order
InsertedTagTexts(t, color) ==
  IF IsShapeElement(t.name)
  THEN {TagText(t)} \cup
       { TagText([t EXCEPT !.attrs = InsertAttr(t.attrs, k, [n |-> AttrFill.n, v |-> color])]) :
           k \in 0..Len(t.attrs) }
  ELSE {TagText(t)}

RECURSIVE InsertedBodyTexts(_, _)
InsertedBodyTexts(tags, color) ==
  IF tags = << >> THEN { << >> }
  ELSE { h \o r : h \in InsertedTagTexts(Head(tags), color),
                  r \in InsertedBodyTexts(Tail(tags), color) }

\* C21: when buildSvg has returned, the output body is the input body with
\* fill attributes inserted into tags of the seven shape elements: a tag of
\* any other element is unchanged, and every tag keeps its element name and
\* its attributes, in their order.
C21_InsertionOnly ==
  (calc.fn = "buildSvg" /\ calc.pc = "done") =>
     calc.result \in InsertedBodyTexts(calc.tags, calc.color)

\* <g d="X"/><path d="X"/> has become <g d="X"/><path fill="red" d="X"/>
C21_Witness ==
  /\ calc.fn = "buildSvg" /\ calc.pc = "done"
  /\ calc.tags = << [name |-> <<"g">>, attrs |-> <<AttrD>>],
                    [name |-> SVG_SHAPE_ELEMENTS[1], attrs |-> <<AttrD>>] >>
  /\ calc.color = <<"r", "e", "d">>
  /\ calc.result =
       BodyText(<< calc.tags[1],
                   [name |-> SVG_SHAPE_ELEMENTS[1],
                    attrs |-> <<[n |-> AttrFill.n, v |-> <<"r", "e", "d">>], AttrD>>] >>)

(***************************************************************************)
(* iconIdToComponentName as a function of its argument                     *)
(***************************************************************************)

\* the characters of the identifiers handed to iconIdToComponentName
IdChars == {"a", "B", ":", "-", "_"}

\* the longest such identifier
MaxIdLen == 4

\* the identifiers of the examples: lucide:arrow-right and mdi:a
ExampleIds == { <<"l", "u", "c", "i", "d", "e", ":", "a", "r", "r", "o", "w", "-", "r", "i", "g", "h", "t">>, <<"m", "d", "i", ":", "a">> }

IdInputs == UNION { [1..n -> IdChars] : n \in 0..MaxIdLen } \cup ExampleIds

\* a call of iconIdToComponentName and its return value
ComponentNameCall(iconId) ==
  /\ calc.pc = "none"
  /\ calc' = [fn |-> "iconIdToComponentName", pc |-> "done", iconId |-> iconId,
              result |-> iconIdToComponentName(iconId)]
  /\ UNCHANGED <<framework, mdir, mfile, prevFile, lastAdd, firstName, adders,
                 overlapped, prefVars>>

InitName == InitFile /\ framework = "react" /\ InitPrefs /\ faultsLeft = 0

NextName == \E iconId \in IdInputs : ComponentNameCall(iconId)

SpecName == InitName /\ [][NextName]_vars

\* the positions of the character c in s
PositionsOf(s, c) == {i \in 1..Len(s) : s[i] = c}

\* the part of an identifier between its first ':' and its second ':' or its
\* end; empty when there is no ':'
NamePartOf(iconId) ==
  LET cs == PositionsOf(iconId, ":")
  IN IF cs = {} THEN << >>
     ELSE LET c1 == CHOOSE i \in cs : \A j \in cs : i <= j
              later == cs \ {c1}
              c2 == IF later = {} THEN Len(iconId) + 1
                    ELSE CHOOSE i \in later : \A j \in later : i <= j
          IN SubSeq(iconId, c1 + 1, c2 - 1)

\* the part of an identifier before its first ':'
PrefixPartOf(iconId) ==
  LET cs == PositionsOf(iconId, ":")
  IN IF cs = {} THEN iconId
     ELSE SubSeq(iconId, 1, (CHOOSE i \in cs : \A j \in cs : i <= j) - 1)

\* name without '-' and '_', a character at the start of name or behind a
\* '-' or '_' in upper case, every other character in lower case
PascalOf(name) ==
  LET keep == SelectSeq([i \in 1..Len(name) |-> i], LAMBDA i : name[i] \notin {"-", "_"})
  IN [k \in 1..Len(keep) |->
        IF keep[k] = 1 \/ name[keep[k] - 1] \in {"-", "_"}
        THEN ToUpper(name[keep[k]]) ELSE ToLower(name[keep[k]])]

\* C22: iconIdToComponentName returns "Icon" when the identifier has no
\* non-empty part behind its first ':', else the name part without '-' and
\* '_' with every segment capitalized, followed by "Icon"; identifiers with
\* the same name part get the same result, whatever their prefix.
C22_ComponentName ==
  (calc.fn = "iconIdToComponentName") =>
     /\ (\A p \in DOMAIN SplitOn(calc.iconId, {":"}) :
           p > 1 => SplitOn(calc.iconId, {":"})[p] = << >>) => calc.result = IconSuffix
     /\ calc.result = PascalOf(NamePartOf(calc.iconId)) \o IconSuffix
     /\ calc.iconId = <<"l", "u", "c", "i", "d", "e", ":", "a", "r", "r", "o", "w", "-", "r", "i", "g", "h", "t">> => calc.result = <<"A", "r", "r", "o", "w", "R", "i", "g", "h", "t", "I", "c", "o", "n">>
     /\ calc.iconId = <<"m", "d", "i", ":", "a">> => calc.result = <<"A", "I", "c", "o", "n">>
     /\ \A other \in IdInputs :
          NamePartOf(other) = NamePartOf(calc.iconId) =>
             iconIdToComponentName(other) = calc.result

\* a:BB gives BbIcon: the second B is put in lower case
C22_Witness ==
  /\ calc.fn = "iconIdToComponentName"
  /\ calc.iconId = <<"a", ":", "B", "B">>
  /\ calc.result = <<"B", "b", "I", "c", "o", "n">>

(***************************************************************************)
(* sortByPreferredCollections (icon-utils.ts)                              *)
(***************************************************************************)

\* the icons of a search result
SortIconIds == { <<"m", "d", "i", ":", "a">>, <<"m", "d", "i", ":", "b">>, <<"l", "u", "c", "i", "d", "e", ":", "b">>, <<"p", "h", ":", "a">>, <<"x", ":", "a">>, <<"x", ":", "b">> }

\* the longest list of icons
MaxIcons == 3

IconLists == UNION { [1..n -> SortIconIds] : n \in 0..MaxIcons }

Styles == {"solid", "outline", "any"}

\* learnedPreferences: none, collections with and without a style default,
\* and a list that names a collection twice
LearnedLists ==
  { << >>, <<<<"l", "u", "c", "i", "d", "e">>>>, <<<<"x">>>>, <<<<"x">>, <<"m", "d", "i">>>>, <<<<"p", "h">>, <<"x">>, <<"p", "h">>>> }

\* iconId.split(":")[0] ?? ""
getIconPrefix(iconId) == SplitOn(iconId, {":"})[1]

stylePreferred(style) ==
  IF style = "solid" THEN <<<<"m", "d", "i">>, <<"f", "a", "-", "s", "o", "l", "i", "d">>>>
  ELSE IF style = "outline" THEN <<<<"l", "u", "c", "i", "d", "e">>, <<"t", "a", "b", "l", "e", "r">>, <<"p", "h">>>>
  ELSE <<<<"l", "u", "c", "i", "d", "e">>, <<"m", "d", "i">>, <<"h", "e", "r", "o", "i", "c", "o", "n", "s">>>>

\* [...new Set(list)]: the first occurrence of every element, in order
RECURSIVE Dedup(_)
Dedup(list) ==
  IF list = << >> THEN << >>
  ELSE LET front == Dedup(SubSeq(list, 1, Len(list) - 1))
           last  == list[Len(list)]
       IN IF \E i \in DOMAIN front : front[i] = last THEN front ELSE Append(front, last)

\* a faulty variant: the style defaults come first
preferred_StyleFirst(style, learnedPreferences) ==
  Dedup(stylePreferred(style) \o learnedPreferences)

\* [...new Set([...learnedPreferences, ...stylePreferred])]
preferred(style, learnedPreferences) ==
  Dedup(learnedPreferences \o stylePreferred(style))

\* list.indexOf(x), counted from 0, -1 when x is not in the list
IndexOf(list, x) ==
  IF \E i \in DOMAIN list : list[i] = x
  THEN (CHOOSE i \in DOMAIN list : list[i] = x /\ \A j \in 1..(i - 1) : list[j] # x) - 1
  ELSE -1

\* the comparator handed to sort
ComparePreferred(pref, a, b) ==
  LET pA == IndexOf(pref, getIconPrefix(a))
      pB == IndexOf(pref, getIconPrefix(b))
  IN IF pA >= 0 /\ pB >= 0 THEN pA - pB
     ELSE IF pA >= 0 /\ pB < 0 THEN -1
     ELSE IF pB >= 0 /\ pA < 0 THEN 1
     ELSE 0

\* x put into the sorted list behind every element it does not precede
RECURSIVE InsertSorted(_, _, _)
InsertSorted(pref, sorted, x) ==
  IF sorted = << >> THEN <<x>>
  ELSE IF ComparePreferred(pref, x, Head(sorted)) < 0 THEN <<x>> \o sorted
  ELSE <<Head(sorted)>> \o InsertSorted(pref, Tail(sorted), x)

\* [...icons].sort(comparator): Array.prototype.sort is stable
RECURSIVE StableSort(_, _)
StableSort(pref, icons) ==
  IF icons = << >> THEN << >>
  ELSE InsertSorted(pref, StableSort(pref, SubSeq(icons, 1, Len(icons) - 1)),
                    icons[Len(icons)])

sortByPreferredCollections(icons, style, learnedPreferences) ==
  /\ calc.pc = "none"
  /\ calc' = [fn |-> "sortByPreferredCollections", pc |-> "done", icons |-> icons,
              style |-> style, learnedPreferences |-> learnedPreferences,
              result |-> StableSort(preferred(style, learnedPreferences), icons)]
  /\ UNCHANGED <<framework, mdir, mfile, prevFile, lastAdd, firstName, adders,
                 overlapped, prefVars>>

InitSort == InitFile /\ framework = "react" /\ InitPrefs /\ faultsLeft = 0

NextSort ==
  \E icons \in IconLists, style \in Styles, learned \in LearnedLists :
     sortByPreferredCollections(icons, style, learned)

SpecSort == InitSort /\ [][NextSort]_vars

\* the rank of an icon: the place of the first occurrence of its prefix in
\* learnedPreferences followed by the style defaults, 0 when it has none
RankOf(c, iconId) ==
  LET list == c.learnedPreferences \o stylePreferred(c.style)
      at   == {i \in DOMAIN list : list[i] = PrefixPartOf(iconId)}
  IN IF at = {} THEN 0 ELSE CHOOSE i \in at : \A j \in at : i <= j

InLearned(c, iconId) ==
  \E i \in DOMAIN c.learnedPreferences : c.learnedPreferences[i] = PrefixPartOf(iconId)

\* x comes before y in the order of the claim
RankedBefore(c, x, y) ==
  /\ RankOf(c, x) # 0
  /\ RankOf(c, y) = 0 \/ RankOf(c, x) < RankOf(c, y)

\* C23: the result of sortByPreferredCollections is a permutation of the
\* input in which no icon stands behind one it outranks (ranked before
\* unranked, lower rank first), icons of equal rank and unranked icons keep
\* their input order, and an icon of a learned collection stands before
\* every icon whose collection is only a style default.
C23_StableRankOrder ==
  (calc.fn = "sortByPreferredCollections") =>
     LET n == Len(calc.icons)
     IN /\ Len(calc.result) = n
        /\ \E p \in [1..n -> 1..n] :
              /\ \A i, j \in 1..n : i # j => p[i] # p[j]
              /\ \A k \in 1..n : calc.result[k] = calc.icons[p[k]]
              /\ \A k, l \in 1..n :
                    k < l => /\ ~RankedBefore(calc, calc.result[l], calc.result[k])
                             /\ ~RankedBefore(calc, calc.result[k], calc.result[l])
                                  => p[k] < p[l]
        /\ \A k, l \in 1..n :
              (/\ InLearned(calc, calc.result[k])
               /\ ~InLearned(calc, calc.result[l])
               /\ RankOf(calc, calc.result[l]) # 0) => k < l
        /\ (/\ calc.icons = <<<<"m", "d", "i", ":", "a">>, <<"l", "u", "c", "i", "d", "e", ":", "b">>>>
            /\ calc.style = "solid"
            /\ calc.learnedPreferences = <<<<"l", "u", "c", "i", "d", "e">>>>)
              => calc.result = <<<<"l", "u", "c", "i", "d", "e", ":", "b">>, <<"m", "d", "i", ":", "a">>>>

\* x:b, mdi:a, x:a sorted for style solid with learned x, mdi: the x icons
\* first and in their input order
C23_Witness ==
  /\ calc.fn = "sortByPreferredCollections"
  /\ calc.icons = <<<<"x", ":", "b">>, <<"m", "d", "i", ":", "a">>, <<"x", ":", "a">>>>
  /\ calc.style = "solid"
  /\ calc.learnedPreferences = <<<<"x">>, <<"m", "d", "i">>>>
  /\ calc.result = <<<<"x", ":", "b">>, <<"x", ":", "a">>, <<"m", "d", "i", ":", "a">>>>

(***************************************************************************)
(* getPreferredCollections (preferences)                                   *)
(***************************************************************************)

TrackedPrefixes == {"lucide", "mdi", "ph"}

\* the orders in which Object.entries can list the keys of collections: the
\* order in which the keys were added, which the collections of the model
\* do not record
EntryOrders(collections) ==
  LET n == Cardinality(DOMAIN collections)
  IN { o \in [1..n -> DOMAIN collections] : \A i, j \in 1..n : i # j => o[i] # o[j] }

\* a faulty variant: the lower count first
RECURSIVE InsertByCount_Ascending(_, _, _)
InsertByCount_Ascending(collections, sorted, x) ==
  IF sorted = << >> THEN <<x>>
  ELSE IF collections[x].count - collections[Head(sorted)].count < 0 THEN <<x>> \o sorted
  ELSE <<Head(sorted)>> \o InsertByCount_Ascending(collections, Tail(sorted), x)

\* x put into the sorted list before the first entry that b[1].count - a[1].count
\* puts behind it
RECURSIVE InsertByCount(_, _, _)
InsertByCount(collections, sorted, x) ==
  IF sorted = << >> THEN <<x>>
  ELSE IF collections[Head(sorted)].count - collections[x].count < 0 THEN <<x>> \o sorted
  ELSE <<Head(sorted)>> \o InsertByCount(collections, Tail(sorted), x)

\* entries.sort((a, b) => b[1].count - a[1].count).map(([prefix]) => prefix)
RECURSIVE SortByCount(_, _)
SortByCount(collections, entries) ==
  IF entries = << >> THEN << >>
  ELSE InsertByCount(collections,
                     SortByCount(collections, SubSeq(entries, 1, Len(entries) - 1)),
                     entries[Len(entries)])

getPreferredCollections(p) ==
  /\ pc[p] = "idle"
  /\ LET loaded == loadPreferences(p)
     IN \E entries \in EntryOrders(loaded.collections) :
           calc' = [fn |-> "getPreferredCollections", pc |-> "done",
                    collections |-> loaded.collections,
                    persisted |-> PersistedCollections,
                    result |-> SortByCount(loaded.collections, entries)]
  /\ ev' = NoEv
  /\ UNCHANGED <<framework, mdir, mfile, prevFile, lastAdd, firstName, adders,
                 overlapped>>
  /\ UNCHANGED <<pdir, pfile, temp, DEFAULT_PREFERENCES, pc, call, prefs, attempt,
                 fbh, logged, now, faultsLeft>>

\* one process tracks usage of three collections and asks for the preferred ones
PrefFaults == 2

InitPreferred == InitPrefs /\ InitFile /\ framework = "react" /\ faultsLeft = PrefFaults

NextPreferred ==
  \/ \E prefix \in TrackedPrefixes : TrackUsage("p1", prefix, NoIcon, MaxCount)
  \/ TrackRetry("p1")
  \/ SaveSteps("p1")
  \/ getPreferredCollections("p1")

SpecPreferred == InitPreferred /\ [][NextPreferred]_vars

\* C24: the list getPreferredCollections returns holds every prefix with an
\* entry in the preferences file exactly once, and no prefix stands before
\* one with a higher count.
C24_PreferredOrder ==
  (calc.fn = "getPreferredCollections") =>
     /\ \A prefix \in DOMAIN calc.persisted :
           Cardinality({i \in DOMAIN calc.result : calc.result[i] = prefix}) = 1
     /\ \A i, j \in DOMAIN calc.result :
           i < j => calc.collections[calc.result[i]].count
                       >= calc.collections[calc.result[j]].count
     /\ \A i, j \in DOMAIN calc.result :
           (i < j /\ calc.result[i] \in DOMAIN calc.persisted
                  /\ calc.result[j] \in DOMAIN calc.persisted)
             => calc.persisted[calc.result[i]].count >= calc.persisted[calc.result[j]].count

\* three collections are persisted, one of them counted twice, and it is
\* returned first
C24_Witness ==
  /\ calc.fn = "getPreferredCollections"
  /\ DOMAIN calc.persisted = TrackedPrefixes
  /\ calc.persisted["mdi"].count = 2
  /\ calc.persisted["lucide"].count = 1
  /\ calc.persisted["ph"].count = 1
  /\ calc.result[1] = "mdi"

(***************************************************************************)
(* The get_icon tool (index.ts and the server of cli.ts) and the get       *)
(* command (commands/get): the identifier check, the fetch of the icon     *)
(* set, and the choice of the icon in it.                                  *)
(***************************************************************************)

GetHandlers == {"index.get_icon", "cli.get_icon", "getCommand"}

\* the identifiers handed in: well formed ones, and ones without ':', with
\* an empty prefix, an empty name, and more than two parts
LookupIds ==
  { <<"a", ":", "a">>, <<"a", ":", "b">>, <<"a", ":", "c">>, <<>>, <<"a">>, <<":", "a">>, <<"a", ":">>, <<":">>, <<"a", ":", "b", ":", "c">>, <<"a", ":", ":", "b">>, <<"a", ":", "b", ":">> }

\* the icon-set documents the API answers with
IconSets == [aliases : AliasMaps, icons : SUBSET IconNames]

\* no response yet
NoIconSet == [aliases |-> EmptyMap, icons |-> {}]

\* the key of iconSet.aliases and iconSet.icons a name stands for
NameKey(name) == IF Len(name) = 1 THEN name[1] ELSE "other"

\* const [prefix, name] = icon_id.split(":"): undefined is the empty part
SecondPart(iconId) ==
  LET parts == SplitOn(iconId, {":"})
  IN IF Len(parts) >= 2 THEN parts[2] ELSE << >>

\* the handler up to the fetch of the icon set
GetStart(h, iconId) ==
  /\ calc.pc = "none"
  /\ LET prefix == SplitOn(iconId, {":"})[1]
         name   == SecondPart(iconId)
     IN calc' = [fn |-> h, iconId |-> iconId, prefix |-> prefix, name |-> name,
                 pc |-> IF prefix = << >> \/ name = << >> THEN "done" ELSE "fetch",
                 outcome |-> IF prefix = << >> \/ name = << >> THEN "invalid" ELSE "",
                 fetched |-> ~(prefix = << >> \/ name = << >>),
                 iconSet |-> NoIconSet, resolvedName |-> ""]
  /\ UNCHANGED <<framework, mdir, mfile, prevFile, lastAdd, firstName, adders,
                 overlapped, prefVars>>

\* the response is not ok
GetFetchNotOk ==
  /\ calc.fn \in GetHandlers /\ calc.pc = "fetch"
  /\ calc' = [calc EXCEPT !.pc = "done", !.outcome = "fetchError"]
  /\ UNCHANGED <<framework, mdir, mfile, prevFile, lastAdd, firstName, adders,
                 overlapped, prefVars>>

\* resolveIconAlias as a function: the loop from current and depth on
RECURSIVE AliasLoop(_)
AliasLoop(c) ==
  IF AliasLoopCond(c)
  THEN AliasLoop([c EXCEPT !.current = ParentOrSelf(c.aliases, c.current),
                           !.depth = c.depth + 1])
  ELSE c.current

\* getCommand: resolveIconAlias(iconSet, name)
ResolvedByCommand(iconSet, name) ==
  AliasLoop([aliases |-> iconSet.aliases, current |-> name, depth |-> 0,
             maxDepth |-> DefaultMaxDepth])

\* get_icon: if (iconSet.aliases?.[name]) resolvedName = iconSet.aliases[name].parent
ResolvedByTool(iconSet, name) ==
  IF name \in DOMAIN iconSet.aliases THEN iconSet.aliases[name].parent ELSE name

\* the response is ok: the icon is chosen in the icon set
GetFetchOk(iconSet) ==
  /\ calc.fn \in GetHandlers /\ calc.pc = "fetch"
  /\ LET resolved == IF calc.fn = "getCommand"
                     THEN ResolvedByCommand(iconSet, NameKey(calc.name))
                     ELSE ResolvedByTool(iconSet, NameKey(calc.name))
     IN calc' = [calc EXCEPT !.pc = "done", !.iconSet = iconSet,
                             !.resolvedName = resolved,
                             !.outcome = IF resolved \in iconSet.icons THEN "found"
                                         ELSE "notFound"]
  /\ UNCHANGED <<framework, mdir, mfile, prevFile, lastAdd, firstName, adders,
                 overlapped, prefVars>>

InitGet == InitFile /\ framework = "react" /\ InitPrefs /\ faultsLeft = 0

NextGet ==
  \/ \E h \in GetHandlers, iconId \in LookupIds : GetStart(h, iconId)
  \/ GetFetchNotOk
  \/ /\ calc.pc = "fetch"
     /\ \E iconSet \in IconSets : GetFetchOk(iconSet)

SpecGet == InitGet /\ [][NextGet]_vars

\* the identifier is two non-empty parts with one ':' between them
TwoNonEmptyParts(iconId) ==
  /\ Cardinality(PositionsOf(iconId, ":")) = 1
  /\ Len(iconId) >= 3
  /\ iconId[1] # ":" /\ iconId[Len(iconId)] # ":"

\* C25: the get_icon tool and the get command fetch an icon set only for an
\* identifier of exactly two non-empty parts; for every other identifier
\* they give the invalid-identifier error and fetch nothing.
C25_OnlyTwoPartIds ==
  (calc.fn \in GetHandlers) =>
     /\ calc.fetched => TwoNonEmptyParts(calc.iconId)
     /\ ~TwoNonEmptyParts(calc.iconId) => calc.outcome = "invalid"

\* a::b is refused without a fetch
C25_Witness ==
  /\ calc.fn = "index.get_icon"
  /\ calc.iconId = <<"a", ":", ":", "b">>
  /\ calc.outcome = "invalid"
  /\ ~calc.fetched

\* C29: for every icon-set document and requested name, each get_icon
\* handler chooses the icon name that the get command chooses with
\* resolveIconAlias, and so finds the icon exactly when the command does.
C29_SameResolution ==
  (calc.fn \in GetHandlers /\ calc.outcome \in {"found", "notFound"}) =>
     LET byCommand == ResolvedByCommand(calc.iconSet, NameKey(calc.name))
     IN /\ calc.resolvedName = byCommand
        /\ (calc.outcome = "found") = (byCommand \in calc.iconSet.icons)

\* b is an alias of a: the get_icon tool of index.ts finds a for a:b, as
\* the command does
C29_Witness ==
  /\ calc.fn = "index.get_icon"
  /\ calc.iconId = <<"a", ":", "b">>
  /\ calc.iconSet = [aliases |-> [n \in {"b"} |-> [parent |-> "a"]], icons |-> {"a"}]
  /\ calc.resolvedName = "a"
  /\ calc.outcome = "found"

(***************************************************************************)
(* savePreferences: the fallback and the error                             *)
(***************************************************************************)

\* the call of savePreferences by p ends with the error in this step: a
\* trackUsage attempt is counted as failed, clearPreferences raises
SaveRaises(p) ==
  IF call[p].op = "track" THEN attempt'[p] = attempt[p] + 1
  ELSE ev'.kind = "clearRaised"

C27_AtMostOnePerCall ==
  (call["p1"].op = "track" /\ pfile.st = "complete") =>
     LET count == CountOf(pfile.doc.collections, call["p1"].prefix)
     IN call["p1"].count0 <= count /\ count <= call["p1"].count0 + 1

\* a trackUsage call has returned after one failed attempt, with the count
\* of the file 1 above the count at its start
C27_Witness ==
  /\ ev.kind = "trackReturned"
  /\ attempt["p1"] = 1
  /\ pfile.st = "complete"
  /\ call["p1"].count0 = 1
  /\ CountOf(pfile.doc.collections, call["p1"].prefix) = 2

(***************************************************************************)
(* The layout of the managed file, with callers of different flavors       *)
(***************************************************************************)

\* the next caller passes another framework
SwitchFramework ==
  /\ \E fw \in Frameworks \ {framework} : framework' = fw
  /\ UNCHANGED <<mdir, mfile, prevFile, lastAdd, firstName, adders, overlapped, calc,
                 prefVars>>

\* the icons added by callers of different flavors
FlavorIconIds == { <<"l", ":", "a">>, <<"m", ":", "a">>, <<"l", ":", "a", ".", "b">> }

\* callers of different flavors add icons under their generated names
NextFlavors ==
  \/ \E iconId \in FlavorIconIds : addIconToFile(iconId, "xml+plain", NoCustom)
  \/ SwitchFramework

SpecFlavors == InitManaged /\ [][NextFlavors]_vars

\* line i of the file is the identifier comment that begins an entry block
BeginsBlock(file, i) == file[i].k = "comment" /\ file[i].t = "id"

\* C28: the call that creates the managed file writes the header of its
\* flavor first; every adding call leaves the content it found (the header
\* when there was no file) without its trailing blank lines, one blank
\* line, and the new block; so every entry block of the file has exactly
\* one blank line before it.
C28_HeaderAndSeparation ==
  [][mfile' # mfile =>
       LET found == IF mfile = Absent THEN getFileHeader(framework) ELSE mfile
       IN /\ \E svg \in Markups :
               mfile' = TrimEnd(found) \o <<Blank>>
                          \o generateIconComponent(lastAdd'.componentName, svg,
                                                   lastAdd'.iconId, framework)
          /\ mfile = Absent =>
               SubSeq(mfile', 1, Len(TrimEnd(found)) + 1) = getFileHeader(framework)
          /\ mfile # Absent =>
               SubSeq(mfile', 1, Len(TrimEnd(mfile))) = TrimEnd(mfile)
          /\ \A i \in DOMAIN mfile' :
                BeginsBlock(mfile', i) =>
                   i >= 3 /\ mfile'[i - 1] = Blank /\ mfile'[i - 2] # Blank]_vars

\* a vue block was added behind a react header and a react block
C28_Witness ==
  /\ mfile # Absent
  /\ Len(Entries(mfile)) = 2
  /\ SubSeq(mfile, 1, 5) = getFileHeader("react")
  /\ \E i \in DOMAIN mfile : mfile[i].k = "export" /\ mfile[i].t = "react"
  /\ mfile[Len(mfile)] = Line("code", "};", << >>, "")

(***************************************************************************)
(* The interactive setup (cli.ts): the MCP config files of the editors     *)
(***************************************************************************)

\* getEditorConfigs: the editors, in the order of the list
Editors == <<"Cursor", "Claude Desktop", "VS Code (Copilot)", "Windsurf">>

EditorNames == {Editors[i] : i \in DOMAIN Editors}

\* getMcpServerConfig()["better-icons"]: { command: "npx", args: ["-y", "better-icons"] }
ServerConfig == "npx -y better-icons"

\* a config file: absent, a JSON object, or text that JSON.parse rejects (a
\* file with comments or a trailing comma) in which a reader still finds the
\* same keys and entries.  keys are the top-level keys other than mcpServers.
ConfigFile(kind, keys, hasServers, servers) ==
  [kind |-> kind, keys |-> keys, hasServers |-> hasServers, servers |-> servers]

NoConfigFile == ConfigFile("absent", {}, FALSE, EmptyMap)

OtherServer == [n \in {"other"} |-> "other-cmd"]

BothServers == [n \in {"other", "better-icons"} |->
                  IF n = "other" THEN "other-cmd" ELSE "old-cmd"]

ConfigFiles ==
  { NoConfigFile,
    ConfigFile("json", {"theme"}, FALSE, EmptyMap),
    ConfigFile("json", {"theme"}, TRUE, OtherServer),
    ConfigFile("json", {}, TRUE, BothServers),
    ConfigFile("invalid", {"theme"}, TRUE, OtherServer) }

\* readJsonFile: {} for a missing file and for one that cannot be parsed
readJsonFile(file) ==
  IF file.kind = "json" THEN file ELSE ConfigFile("json", {}, FALSE, EmptyMap)

\* writeJsonFile(path, config) with
\* config.mcpServers = { ...config.mcpServers, ...serverConfig }
ConfiguredFile(config) ==
  ConfigFile("json", config.keys, TRUE, MapSet(config.servers, "better-icons", ServerConfig))

\* the editors of the list whose names were selected, in the order of the list
SelectedEditors(names) == SelectSeq(Editors, LAMBDA e : e \in names)

\* the answers to the overwrite prompt
Answers == {"y", "Y", "n", ""}

\* answer.toLowerCase() === "y"
Confirms(answer) == answer \in {"y", "Y"}

\* runInteractiveSetup up to the loop over the selected editors
runInteractiveSetup(files, selectedNames) ==
  /\ calc.pc = "none"
  /\ calc' = [fn |-> "runInteractiveSetup",
              pc |-> IF selectedNames = {} THEN "done" ELSE "next",
              before |-> files, files |-> files, selectedNames |-> selectedNames,
              todo |-> SelectedEditors(selectedNames), config |-> NoConfigFile,
              written |-> {}, confirmed |-> {}, configured |-> 0]
  /\ UNCHANGED <<framework, mdir, mfile, prevFile, lastAdd, firstName, adders,
                 overlapped, prefVars>>

\* the loop head: the config of the next editor is read and looked at
SetupRead ==
  /\ calc.fn = "runInteractiveSetup" /\ calc.pc = "next"
  /\ calc.todo # << >>
  /\ LET config == readJsonFile(calc.files[Head(calc.todo)])
     IN calc' = [calc EXCEPT !.config = config,
                             !.pc = IF "better-icons" \in DOMAIN config.servers
                                    THEN "confirm" ELSE "write"]
  /\ UNCHANGED <<framework, mdir, mfile, prevFile, lastAdd, firstName, adders,
                 overlapped, prefVars>>

\* the answer to "already has better-icons configured. Overwrite?"
SetupAnswer(answer) ==
  /\ calc.fn = "runInteractiveSetup" /\ calc.pc = "confirm"
  /\ calc' = IF Confirms(answer)
             THEN [calc EXCEPT !.pc = "write",
                               !.confirmed = @ \cup {Head(calc.todo)}]
             ELSE [calc EXCEPT !.pc = "next", !.todo = Tail(calc.todo)]
  /\ UNCHANGED <<framework, mdir, mfile, prevFile, lastAdd, firstName, adders,
                 overlapped, prefVars>>

\* the entry is set and the file is written
SetupWrite ==
  /\ calc.fn = "runInteractiveSetup" /\ calc.pc = "write"
  /\ calc' = [calc EXCEPT !.files[Head(calc.todo)] = ConfiguredFile(calc.config),
                          !.written = @ \cup {Head(calc.todo)},
                          !.configured = @ + 1,
                          !.pc = "next", !.todo = Tail(calc.todo)]
  /\ UNCHANGED <<framework, mdir, mfile, prevFile, lastAdd, firstName, adders,
                 overlapped, prefVars>>

\* the loop is over
SetupDone ==
  /\ calc.fn = "runInteractiveSetup" /\ calc.pc = "next"
  /\ calc.todo = << >>
  /\ calc' = [calc EXCEPT !.pc = "done"]
  /\ UNCHANGED <<framework, mdir, mfile, prevFile, lastAdd, firstName, adders,
                 overlapped, prefVars>>

InitSetup == InitFile /\ framework = "react" /\ InitPrefs /\ faultsLeft = 0

NextSetup ==
  \/ /\ calc.pc = "none"
     /\ \E files \in [EditorNames -> ConfigFiles], selectedNames \in SUBSET EditorNames :
           runInteractiveSetup(files, selectedNames)
  \/ SetupRead
  \/ \E answer \in Answers : SetupAnswer(answer)
  \/ SetupWrite
  \/ SetupDone

SpecSetup == InitSetup /\ [][NextSetup]_vars

\* the entries of mcpServers other than better-icons
OtherEntries(file) ==
  [n \in (DOMAIN file.servers) \ {"better-icons"} |-> file.servers[n]]

\* C30: during and after the setup, the config file of an editor that was
\* not selected is as it was and was not written; a file that differs from
\* what it was has the top-level keys and the mcpServers entries it had,
\* better-icons apart; and a better-icons entry that was there is another
\* one only if the user answered y for that editor.
C30_OnlyBetterIconsEntry ==
  (calc.fn = "runInteractiveSetup") =>
     \A e \in EditorNames :
        /\ e \notin calc.selectedNames => (calc.files[e] = calc.before[e] /\ e \notin calc.written)
        /\ calc.files[e].keys = calc.before[e].keys
        /\ OtherEntries(calc.files[e]) = OtherEntries(calc.before[e])
        /\ ("better-icons" \in DOMAIN calc.before[e].servers
              /\ calc.files[e].servers # calc.before[e].servers) => e \in calc.confirmed

\* Cursor had another server and an older better-icons entry; after a y the
\* other server is as it was and the entry is the new one
C30_Witness ==
  /\ calc.fn = "runInteractiveSetup" /\ calc.pc = "done"
  /\ calc.before["Cursor"] = ConfigFile("json", {}, TRUE, BothServers)
  /\ "Cursor" \in calc.confirmed
  /\ calc.files["Cursor"].servers["other"] = "other-cmd"
  /\ calc.files["Cursor"].servers["better-icons"] = ServerConfig

====
